---- MODULE Spec2Model ----
(***************************************************************************)
(* Neighbour lists, batch reindexing and padding, angle derivation, the    *)
(* MD driver and calculator, conformer trimming and the Tully hop and      *)
(* propagation primitives of NeuralForceField, modelled from the Python    *)
(* sources.                                                                *)
(*                                                                         *)
(* Conventions of the model                                                *)
(*  - Atom indices and list positions are 0-based VALUES, as in the code;  *)
(*    TLA+ sequences are 1-based, so atom i of a sequence s is s[i + 1].   *)
(*  - Lengths are integers on a grid of 1/Resolution Angstrom.  Atoms lie  *)
(*    on the x axis (y = z = 0), so every displacement, and every periodic *)
(*    offset, has zero y and z components and only x is carried.  The      *)
(*    cell is orthorhombic with x length `cell`.                           *)
(*  - sqrt is monotone, so `sqrt(d2) <= c` is modelled as                  *)
(*    `c >= 0 /\ d2 <= c*c` in exact arithmetic.                           *)
(*  - A Python exception is modelled as a record [raised |-> <name>].      *)
(***************************************************************************)
EXTENDS Integers, Sequences, FiniteSets, TLC

VARIABLES
    atoms,    \* the AtomsBatch / geometry container
    nbrs,     \* the last neighbour-list builder call and what it returned
    props,    \* Dataset.props of the graph dataset (per-system lists)
    ang,      \* what direct calls of get_angle_list / add_ji_kj returned
    batch,    \* the last batch returned by collate_dicts
    tully,    \* the surface-hopping state and the last primitive's outcome
    md,       \* the MD driver (NoseHoover / BatchNoseHoover) and its last run
    calc      \* the NeuralFF calculator and its last calculate call

vars == <<atoms, nbrs, props, ang, batch, tully, md, calc>>

----------------------------------------------------------------------------
(* Bounds of the model *)

MaxAtoms == 3        \* atoms per system
MaxSystems == 2      \* systems per AtomsBatch / dataset
MaxBatchAtoms == 5   \* atoms per collated batch
CellLen == 4         \* x length of the periodic cell, in grid units
MaxCutoff == 2       \* largest nominal cutoff, in grid units
Resolution == 2      \* grid units per Angstrom
MaxSamples == 2      \* Tully samples
MaxStates == 2       \* Tully electronic states
MaxPeriod == 3       \* largest nbr_update_period of an MD driver
MaxRunSteps == 4     \* largest `steps` of one run call
MaxTotalSteps == 8   \* the drivers' step counter is followed up to here
MaxBondLen == 2      \* largest equilibrium bond length, in grid units
MaxForceConstant == 2  \* largest force constant k of the bond prior
MaxTullyAtoms == 2   \* atoms of one sample in a Verlet step
MaxMolSize == 2      \* atoms of one conformer of a species
MaxConfs == 3        \* conformers of one species

(* src/nff/io/ase.py:26  DEFAULT_SKIN = 1.0 (Angstrom) *)
DEFAULT_SKIN == 1 * Resolution

----------------------------------------------------------------------------
(* Generic helpers *)

Abs(x) == IF x < 0 THEN -x ELSE x

Sq(x) == x * x

RECURSIVE SumSeq(_)
SumSeq(s) == IF s = <<>> THEN 0 ELSE Head(s) + SumSeq(Tail(s))

RECURSIVE Flatten(_)
Flatten(ss) == IF ss = <<>> THEN <<>> ELSE Head(ss) \o Flatten(Tail(ss))

Range(s) == {s[k] : k \in DOMAIN s}

(* The (row, column) index pairs of an nr x nc tensor *)
Entries(nr, nc) == (0..(nr - 1)) \X (0..(nc - 1))

(* tensor.nonzero() of an nr x nc mask, given as the set of the index
   pairs where it is true: those pairs in row-major order *)
nonzero(nr, nc, mask) ==
    SelectSeq([k \in 1..(nr * nc) |-> <<(k - 1) \div nc, (k - 1) % nc>>],
              LAMBDA e : e \in mask)

(* nbr_list[nbr_list[:, 1] > nbr_list[:, 0]] *)
KeepUpper(nbr_list) == SelectSeq(nbr_list, LAMBDA e : e[2] > e[1])

(* Variant: np.cumsum(counts) without the leading 0, the inclusive prefix
   sum *)
Cum_inclusive(counts, k) ==
    SumSeq(SubSeq(counts, 1, IF k + 1 <= Len(counts) THEN k + 1 ELSE Len(counts)))

(* np.cumsum([0] + counts)[:-1] at position k (0-based): the exclusive
   prefix sum; also props['num_atoms'][:k].sum(). *)
Cum(counts, k) == SumSeq(SubSeq(counts, 1, k))

(* Variant: only the first column of the index tensor is shifted *)
ShiftRows_first_column(rows, n) ==
    [r \in DOMAIN rows |->
        [c \in DOMAIN rows[r] |-> IF c = 1 THEN rows[r][c] + n ELSE rows[r][c]]]

(* tensor + int(n) on an index tensor whose rows are tuples *)
ShiftRows(rows, n) ==
    [r \in DOMAIN rows |-> [c \in DOMAIN rows[r] |-> rows[r][c] + n]]

(* Variant: the edge positions are concatenated as they are *)
ShiftIdx_unshifted(idx, n) == idx

(* tensor + int(n) on a 1-d index tensor *)
ShiftIdx(idx, n) == [r \in DOMAIN idx |-> idx[r] + n]

----------------------------------------------------------------------------
(* Neighbour-list builders *)

(* Variant: the filter j > i is applied whatever `undirected` is *)
get_neighbor_list_upper_only(xyz, cutoff, undirected) ==
    LET n == Len(xyz)
        dist2(i, j) == Sq(xyz[i + 1] - xyz[j + 1])
        mask(i, j) == (cutoff >= 0 /\ dist2(i, j) <= Sq(cutoff)) /\ i # j
        nbr_list == nonzero(n, n, {e \in Entries(n, n) : mask(e[1], e[2])})
    IN  KeepUpper(nbr_list)

(* nff/data/graphs.py get_neighbor_list *)
get_neighbor_list(xyz, cutoff, undirected) ==
    LET n == Len(xyz)
        dist2(i, j) == Sq(xyz[i + 1] - xyz[j + 1])
        mask(i, j) == (cutoff >= 0 /\ dist2(i, j) <= Sq(cutoff)) /\ i # j
        nbr_list == nonzero(n, n, {e \in Entries(n, n) : mask(e[1], e[2])})
    IN  IF undirected THEN KeepUpper(nbr_list) ELSE nbr_list

(* atomsobject.get_positions(wrap=True): periodic axes are folded into
   [0, cell) *)
WrappedPositions(at) ==
    [k \in DOMAIN at.positions |->
        IF at.pbc THEN at.positions[k] % at.cell ELSE at.positions[k]]

(* nff/nn/utils.py torch_nbr_list: the displacement, the -1/0/+1 lattice
   offset and the corrected displacement of the pair (i, j) *)
RawDis(at, i, j) == WrappedPositions(at)[j + 1] - WrappedPositions(at)[i + 1]

LatticeOffset(at, i, j) ==
    IF at.pbc
    THEN (IF 2 * RawDis(at, i, j) >= at.cell THEN -1 ELSE 0)
         + (IF 2 * RawDis(at, i, j) < -at.cell THEN 1 ELSE 0)
    ELSE 0

CorrectedDis(at, i, j) ==
    IF at.pbc
    THEN RawDis(at, i, j) + LatticeOffset(at, i, j) * at.cell
    ELSE RawDis(at, i, j)

torch_nbr_list(at, cutoff, directed) ==
    LET n == Len(at.positions)
        mask(i, j) == Sq(CorrectedDis(at, i, j)) < Sq(cutoff)
                      /\ Sq(CorrectedDis(at, i, j)) # 0
        all == nonzero(n, n, {e \in Entries(n, n) : mask(e[1], e[2])})
        nbr_list == IF directed THEN all ELSE KeepUpper(all)
    IN  [nbr_list |-> nbr_list,
         offsets |-> [k \in DOMAIN nbr_list |->
                        LatticeOffset(at, nbr_list[k][1], nbr_list[k][2])]]

(* nff/io/ase.py AtomsBatch.get_list_atoms: the k-th (0-based) system of
   the batch as its own Atoms object, with the batch's cell and pbc *)
get_list_atoms(ab, k) ==
    [positions |-> SubSeq(ab.positions, Cum(ab.num_atoms, k) + 1,
                          Cum(ab.num_atoms, k + 1)),
     pbc |-> ab.pbc, cell |-> ab.cell]

(* The parameters of nff/nn/utils.py torch_nbr_list, line 85 *)
torch_nbr_list_params == {"atomsobject", "cutoff", "device", "directed"}

(* A call torch_nbr_list(at, cutoff, device=..., directed=directed, ...)
   whose keyword arguments are named `keywords`: Python raises TypeError
   for a keyword the function does not declare, before its body runs *)
call_torch_nbr_list(at, cutoff, directed, keywords) ==
    IF keywords \subseteq torch_nbr_list_params
    THEN [raised |-> "none",
          nbr_list |-> torch_nbr_list(at, cutoff, directed).nbr_list,
          offsets |-> torch_nbr_list(at, cutoff, directed).offsets]
    ELSE [raised |-> "TypeError", nbr_list |-> <<>>, offsets |-> <<>>]

(* nff/io/ase.py AtomsBatch.update_nbr_list.  Each system's list comes
   from torch_nbr_list called with the keywords device, directed and
   requires_large_offsets (lines 162-167); the lattice offsets are turned
   into Cartesian ones by offsets.dot(cell) and the indices are shifted by
   props['num_atoms'][:i].sum(). *)
update_nbr_list(ab) ==
    LET one(k) == call_torch_nbr_list(get_list_atoms(ab, k),
                       ab.cutoff + ab.cutoff_skin, ab.directed,
                       {"device", "directed", "requires_large_offsets"})
        nsys == Len(ab.num_atoms)
    IN  IF \E s \in 1..nsys : one(s - 1).raised # "none"
        THEN [raised |-> one(0).raised, nbr_list |-> <<>>, offsets |-> <<>>]
        ELSE [raised |-> "none",
              nbr_list |-> Flatten([s \in 1..nsys |->
                  ShiftRows(one(s - 1).nbr_list, Cum(ab.num_atoms, s - 1))]),
              offsets |-> Flatten([s \in 1..nsys |->
                  [k \in DOMAIN one(s - 1).offsets |->
                      IF ab.pbc THEN one(s - 1).offsets[k] * ab.cell ELSE 0]])]

(* nff/data/dataset.py Dataset._get_periodic_neighbor_list for one
   geometry: an AtomsBatch of that geometry, built without a cutoff_skin
   argument and so with the default skin *)
PeriodicAtomsBatch(at, cutoff, undirected) ==
    [positions |-> at.positions, pbc |-> TRUE, cell |-> at.cell,
     num_atoms |-> <<Len(at.positions)>>,
     cutoff |-> cutoff, cutoff_skin |-> DEFAULT_SKIN,
     directed |-> ~undirected]

(* nff/data/dataset.py Dataset.generate_neighbor_list for one geometry of
   the dataset; `lattice` tells whether props has a "lattice" key *)
generate_neighbor_list(at, lattice, cutoff, undirected) ==
    IF ~lattice
    THEN LET l == get_neighbor_list(at.positions, cutoff, undirected)
         IN  [raised |-> "none", nbr_list |-> l,
              offsets |-> [k \in DOMAIN l |-> 0]]
    ELSE update_nbr_list(PeriodicAtomsBatch(at, cutoff, undirected))

(* nff/nn/models.py SchNet.convolve: the edge vector whose norm is the
   distance the model uses, xyz[a[:, 0]] - xyz[a[:, 1]] - offsets, on the
   positions of get_nxyz (not wrapped) *)
ConvolveVec(xyz, e, offset) == xyz[e[1] + 1] - xyz[e[2] + 1] - offset

----------------------------------------------------------------------------
(* Angle derivation: nff/data/graphs.py *)

(* nbr_list.flip(1) *)
Flip(nbr_list) == [k \in DOMAIN nbr_list |-> <<nbr_list[k][2], nbr_list[k][1]>>]

(* Variant: the list is returned as given, the reverse edges are never
   appended *)
make_directed_as_given(nbr_list) ==
    [new_nbrs |-> nbr_list,
     directed |-> /\ \E k \in DOMAIN nbr_list : nbr_list[k][1] > nbr_list[k][2]
                  /\ \E k \in DOMAIN nbr_list : nbr_list[k][2] > nbr_list[k][1]]

(* make_directed: (new_nbrs, directed) *)
make_directed(nbr_list) ==
    LET gtr_ij == \E k \in DOMAIN nbr_list : nbr_list[k][1] > nbr_list[k][2]
        gtr_ji == \E k \in DOMAIN nbr_list : nbr_list[k][2] > nbr_list[k][1]
        directed == gtr_ij /\ gtr_ji
    IN  IF directed
        THEN [new_nbrs |-> nbr_list, directed |-> directed]
        ELSE [new_nbrs |-> nbr_list \o Flip(nbr_list), directed |-> directed]

(* np.repeat(rows, counts, axis=0) *)
Repeat(rows, counts) ==
    Flatten([a \in DOMAIN rows |-> [x \in 1..counts[a] |-> rows[a]]])

(* Variant: the mask lacks the term nbr_list[:, 0] != nbr_list[:, 1], so
   the paths i - j - i are kept *)
AnglesOfList_with_returns(given) ==
    LET nbr_list == make_directed(given).new_nbrs
        n == Len(nbr_list)
        mask(a, b) == nbr_list[a + 1][2] = nbr_list[b + 1][1]
        hits == nonzero(n, n, {e \in Entries(n, n) : mask(e[1], e[2])})
        third_atoms == [k \in DOMAIN hits |-> nbr_list[hits[k][2] + 1][2]]
        num_angles == [a \in 1..n |->
                         Cardinality({b \in 0..(n - 1) : mask(a - 1, b)})]
        nbr_repeats == Repeat(nbr_list, num_angles)
    IN  [angle_list |-> [k \in DOMAIN nbr_repeats |->
                            nbr_repeats[k] \o <<third_atoms[k]>>],
         nbr_list |-> nbr_list]

(* the body of get_angle_list's loop for one neighbour list *)
AnglesOfList(given) ==
    LET nbr_list == make_directed(given).new_nbrs
        n == Len(nbr_list)
        mask(a, b) == nbr_list[a + 1][2] = nbr_list[b + 1][1]
                      /\ nbr_list[a + 1][1] # nbr_list[b + 1][2]
        hits == nonzero(n, n, {e \in Entries(n, n) : mask(e[1], e[2])})
        third_atoms == [k \in DOMAIN hits |-> nbr_list[hits[k][2] + 1][2]]
        num_angles == [a \in 1..n |->
                         Cardinality({b \in 0..(n - 1) : mask(a - 1, b)})]
        nbr_repeats == Repeat(nbr_list, num_angles)
    IN  [angle_list |-> [k \in DOMAIN nbr_repeats |->
                            nbr_repeats[k] \o <<third_atoms[k]>>],
         nbr_list |-> nbr_list]

(* get_angle_list(nbr_lists): (angles, new_nbrs) *)
get_angle_list(nbr_lists) ==
    [angles |-> [s \in DOMAIN nbr_lists |-> AnglesOfList(nbr_lists[s]).angle_list],
     new_nbrs |-> [s \in DOMAIN nbr_lists |-> AnglesOfList(nbr_lists[s]).nbr_list]]

(* Variant: the mask of the angle_end column is not multiplied in, so an
   angle matches every edge that starts at its angle_start atom *)
m_idx_of_angles_start_only(angle_list, nbr_list, angle_start, angle_end) ==
    LET mask(n, e) == nbr_list[e + 1][1] = angle_list[n + 1][angle_start + 1]
        hits == nonzero(Len(angle_list), Len(nbr_list),
                        {e \in Entries(Len(angle_list), Len(nbr_list)) :
                            mask(e[1], e[2])})
    IN  [k \in DOMAIN hits |-> hits[k][2]]

(* m_idx_of_angles *)
m_idx_of_angles(angle_list, nbr_list, angle_start, angle_end) ==
    LET mask(n, e) == nbr_list[e + 1][1] = angle_list[n + 1][angle_start + 1]
                      /\ nbr_list[e + 1][2] = angle_list[n + 1][angle_end + 1]
        hits == nonzero(Len(angle_list), Len(nbr_list),
                        {e \in Entries(Len(angle_list), Len(nbr_list)) :
                            mask(e[1], e[2])})
    IN  [k \in DOMAIN hits |-> hits[k][2]]

(* Variant: the positions of the edges (i, j) and (j, k) are looked up
   (angle_start, angle_end = 0, 1 and 1, 2) *)
add_ji_kj_forward(angle_lists, nbr_lists) ==
    [ji_idx |-> [s \in DOMAIN angle_lists |->
                    m_idx_of_angles(angle_lists[s], nbr_lists[s], 0, 1)],
     kj_idx |-> [s \in DOMAIN angle_lists |->
                    m_idx_of_angles(angle_lists[s], nbr_lists[s], 1, 2)]]

(* add_ji_kj(angle_lists, nbr_lists): (ji_idx_list, kj_idx_list) *)
add_ji_kj(angle_lists, nbr_lists) ==
    [ji_idx |-> [s \in DOMAIN angle_lists |->
                    m_idx_of_angles(angle_lists[s], nbr_lists[s], 1, 0)],
     kj_idx |-> [s \in DOMAIN angle_lists |->
                    m_idx_of_angles(angle_lists[s], nbr_lists[s], 2, 1)]]

(* make_dset_directed(dset): every system's nbr_list is replaced by
   make_directed of it *)
make_dset_directed(p) ==
    [p EXCEPT !.nbr_list = [s \in DOMAIN p.nbr_list |->
                               make_directed(p.nbr_list[s]).new_nbrs]]

(* nff/data/dataset.py Dataset.generate_angle_list on a non-periodic
   dataset: the props afterwards *)
generate_angle_list(p) ==
    LET d == make_dset_directed(p)
        al == get_angle_list(d.nbr_list)
        jk == add_ji_kj(al.angles, al.new_nbrs)
    IN  [d EXCEPT !.nbr_list = al.new_nbrs,
                  !.angle_list = al.angles,
                  !.ji_idx = jk.ji_idx,
                  !.kj_idx = jk.kj_idx,
                  !.keys = d.keys \cup {"angle_list", "ji_idx", "kj_idx"}]

----------------------------------------------------------------------------
(* Batching: nff/data/loader.py and Dataset.__getitem__ *)

REINDEX_KEYS == {"atoms_nbr_list", "nbr_list", "angle_list"}

NBR_LIST_KEYS == {"kj_idx", "ji_idx"}

(* Dataset.__getitem__(idx): {key: val[idx]} with idx 1-based here *)
GetItem(p, idx) ==
    [keys |-> p.keys,
     nxyz |-> p.nxyz[idx],
     num_atoms |-> p.num_atoms[idx],
     nbr_list |-> p.nbr_list[idx],
     angle_list |-> IF "angle_list" \in p.keys THEN p.angle_list[idx] ELSE <<>>,
     ji_idx |-> IF "ji_idx" \in p.keys THEN p.ji_idx[idx] ELSE <<>>,
     kj_idx |-> IF "kj_idx" \in p.keys THEN p.kj_idx[idx] ELSE <<>>]

(* collate_dicts(dicts): the returned batch *)
collate_dicts(dicts) ==
    LET cumulative_atoms(k) == Cum([m \in DOMAIN dicts |-> dicts[m].num_atoms], k - 1)
        cumulative_nbrs(k) == Cum([m \in DOMAIN dicts |-> Len(dicts[m].nbr_list)], k - 1)
        reindexed(k, key, val) ==
            IF key \in REINDEX_KEYS /\ key \in dicts[k].keys
            THEN ShiftRows(val, cumulative_atoms(k))
            ELSE IF key \in NBR_LIST_KEYS /\ key \in dicts[k].keys
            THEN ShiftIdx(val, cumulative_nbrs(k))
            ELSE val
        cat(key, field(_)) ==
            IF key \in dicts[1].keys
            THEN Flatten([k \in DOMAIN dicts |-> reindexed(k, key, field(dicts[k]))])
            ELSE <<>>
    IN  [made |-> TRUE,
         dicts |-> dicts,
         keys |-> dicts[1].keys,
         nxyz |-> cat("nxyz", LAMBDA d : d.nxyz),
         num_atoms |-> [k \in DOMAIN dicts |-> dicts[k].num_atoms],
         nbr_list |-> cat("nbr_list", LAMBDA d : d.nbr_list),
         angle_list |-> cat("angle_list", LAMBDA d : d.angle_list),
         ji_idx |-> cat("ji_idx", LAMBDA d : d.ji_idx),
         kj_idx |-> cat("kj_idx", LAMBDA d : d.kj_idx)]

----------------------------------------------------------------------------
(* NaN padding for batched Hessians: nff/nn/tensorgrad.py pad and
   adj_nbrs_and_z.  A row of the padded coordinate array is the tag of a
   real atom, or NanRow where the padding put nan. *)

NanRow == <<>>

(* max([...]) of a non-empty list *)
MaxOf(s) == CHOOSE m \in Range(s) : \A x \in Range(s) : x <= m

(* torch.split(nxyz, N)[k - 1]: the rows of system k (1-based) *)
split(nxyz, N, k) == SubSeq(nxyz, Cum(N, k - 1) + 1, Cum(N, k))

(* pad, lines 144-180: every geometry is padded with nan to the length of
   the longest one and the geometries are stacked; xyz holds, system after
   system, the rows of the real atoms followed by the nan rows *)
padded_xyz(nxyz, N) ==
    LET max_atoms == MaxOf(N)
    IN  Flatten([k \in DOMAIN N |->
            split(nxyz, N, k) \o [r \in 1..(max_atoms - N[k]) |-> NanRow]])

(* nan_dims = [i for i, row in enumerate(xyz) if torch.isnan(row).all()],
   0-based and ascending *)
RECURSIVE nan_dims_from(_, _)
nan_dims_from(xyz, i) ==
    IF i >= Len(xyz) THEN <<>>
    ELSE (IF xyz[i + 1] = NanRow THEN <<i>> ELSE <<>>)
            \o nan_dims_from(xyz, i + 1)

(* Variant: new_nbrs[new_nbrs > dim] += 1, every index on its own *)
shift_past_elementwise(new_nbrs, dim) ==
    [k \in DOMAIN new_nbrs |->
        <<IF new_nbrs[k][1] > dim THEN new_nbrs[k][1] + 1 ELSE new_nbrs[k][1],
          IF new_nbrs[k][2] > dim THEN new_nbrs[k][2] + 1 ELSE new_nbrs[k][2]>>]

(* mask = torch.any(new_nbrs > dim, dim=1); new_nbrs[mask] += 1: both
   indices of every edge that has an index above dim are raised *)
shift_past(new_nbrs, dim) ==
    [k \in DOMAIN new_nbrs |->
        IF new_nbrs[k][1] > dim \/ new_nbrs[k][2] > dim
        THEN <<new_nbrs[k][1] + 1, new_nbrs[k][2] + 1>>
        ELSE new_nbrs[k]]

(* for dim in nan_dims: ... *)
RECURSIVE shift_all(_, _)
shift_all(new_nbrs, dims) ==
    IF dims = <<>> THEN new_nbrs
    ELSE shift_all(shift_past(new_nbrs, Head(dims)), Tail(dims))

(* adj_nbrs_and_z(batch, xyz, max_dim, stacked), with num_batch the length
   of stacked; the column of atomic numbers gets a nan where xyz has a nan
   row, so the rows of the new nxyz are the rows of xyz *)
adj_nbrs_and_z(b, xyz, max_dim, num_batch) ==
    [made |-> TRUE,
     dicts |-> b.dicts,
     keys |-> b.keys \cup {"real_nbrs", "real_nxyz", "real_num_atoms"},
     angle_list |-> b.angle_list,
     ji_idx |-> b.ji_idx,
     kj_idx |-> b.kj_idx,
     real_nbrs |-> b.nbr_list,
     nbr_list |-> shift_all(b.nbr_list, nan_dims_from(xyz, 0)),
     real_nxyz |-> b.nxyz,
     nxyz |-> xyz,
     real_num_atoms |-> b.num_atoms,
     num_atoms |-> [k \in 1..num_batch |-> max_dim \div 4]]

(* pad(batch): the batch it returns *)
pad(b) ==
    LET max_dim == 4 * MaxOf(b.num_atoms)
        xyz == padded_xyz(b.nxyz, b.num_atoms)
    IN  adj_nbrs_and_z(b, xyz, max_dim, Len(b.num_atoms))

(* stack_xyz, xyz, batch = pad(batch) on a collated batch, as
   schnet_batched_hessians does *)
Pad ==
    /\ batch.made
    /\ "real_nbrs" \notin batch.keys
    /\ batch' = pad(batch)
    /\ UNCHANGED <<atoms, nbrs, props, ang, tully, md, calc>>

----------------------------------------------------------------------------
(* The geometry container and the builder calls *)

(* Compositions of n atoms into at most MaxSystems systems of 1..MaxAtoms
   atoms each: the values of props['num_atoms'] *)
Splits(n) ==
    {s \in UNION {[1..m -> 1..MaxAtoms] : m \in 1..MaxSystems} : SumSeq(s) = n}

(* Coordinates on the grid.  0..CellLen-1 lie in the cell; CellLen lies
   one cell length outside it, where MD drift or unwrapped molecules put
   atoms (nff/md/nvt.py:80-82 and nff/data/dataset.py:450 set positions
   without wrapping). *)
Coords == 0..CellLen

Geometries ==
    UNION {[1..n -> Coords] : n \in 1..MaxAtoms}

(* nff/io/ase.py AtomsBatch.__init__ *)
AtomsBatches ==
    {[positions |-> xyz, pbc |-> pbc, cell |-> IF pbc THEN CellLen ELSE 0,
      num_atoms |-> na, cutoff |-> c, cutoff_skin |-> DEFAULT_SKIN,
      directed |-> d] :
        xyz \in Geometries, pbc \in BOOLEAN, c \in 1..MaxCutoff,
        d \in BOOLEAN, na \in UNION {Splits(n) : n \in 1..MaxAtoms}}

NoAtoms ==
    [positions |-> <<>>, pbc |-> FALSE, cell |-> 0, num_atoms |-> <<>>,
     cutoff |-> 0, cutoff_skin |-> 0, directed |-> FALSE]

NoNbrs ==
    [by |-> "none", raised |-> "none", cutoff |-> 0, directed |-> FALSE,
     nbr_list |-> <<>>, offsets |-> <<>>]

NoProps == [keys |-> {}]

NoAng == [called |-> "none"]

NoBatch == [made |-> FALSE]

NoTully == [called |-> "none"]

NoMD == [called |-> "none"]

NoCalc == [called |-> "none"]

InitAtoms ==
    /\ atoms \in {a \in AtomsBatches : SumSeq(a.num_atoms) = Len(a.positions)}
    /\ nbrs = NoNbrs
    /\ props = NoProps
    /\ ang = NoAng
    /\ batch = NoBatch
    /\ tully = NoTully
    /\ md = NoMD
    /\ calc = NoCalc

(* A molecule: one non-periodic geometry in an AtomsBatch, with any cutoff
   the constructor accepts, zero and negative ones included (nothing in
   AtomsBatch.__init__ or the builders restricts it) *)
Molecules ==
    {[positions |-> xyz, pbc |-> FALSE, cell |-> 0,
      num_atoms |-> <<Len(xyz)>>, cutoff |-> c, cutoff_skin |-> DEFAULT_SKIN,
      directed |-> d] :
        xyz \in Geometries, c \in (-1)..MaxCutoff, d \in BOOLEAN}

InitMolecule ==
    /\ atoms \in Molecules
    /\ nbrs = NoNbrs
    /\ props = NoProps
    /\ ang = NoAng
    /\ batch = NoBatch
    /\ tully = NoTully
    /\ md = NoMD
    /\ calc = NoCalc

(* get_neighbor_list(xyz, cutoff, undirected) on the whole geometry *)
GetNeighborList ==
    /\ ~atoms.pbc
    /\ LET l == get_neighbor_list(atoms.positions, atoms.cutoff, ~atoms.directed)
       IN  nbrs' = [by |-> "get_neighbor_list", raised |-> "none",
                    cutoff |-> atoms.cutoff, directed |-> atoms.directed,
                    nbr_list |-> <<l>>,
                    offsets |-> <<[k \in DOMAIN l |-> 0]>>]
    /\ UNCHANGED <<atoms, props, ang, batch, tully, md, calc>>

(* torch_nbr_list(atoms, cutoff, directed=...) on the whole geometry *)
TorchNbrList ==
    /\ LET r == call_torch_nbr_list(atoms, atoms.cutoff, atoms.directed,
                                    {"directed"})
       IN  nbrs' = [by |-> "torch_nbr_list", raised |-> r.raised,
                    cutoff |-> atoms.cutoff, directed |-> atoms.directed,
                    nbr_list |-> <<r.nbr_list>>, offsets |-> <<r.offsets>>]
    /\ UNCHANGED <<atoms, props, ang, batch, tully, md, calc>>

(* AtomsBatch.update_nbr_list(); when it raises, self.nbr_list and
   self.offsets are not assigned *)
UpdateNbrList ==
    /\ LET r == update_nbr_list(atoms)
       IN  nbrs' = [by |-> "update_nbr_list", raised |-> r.raised,
                    cutoff |-> atoms.cutoff, directed |-> atoms.directed,
                    nbr_list |-> <<r.nbr_list>>, offsets |-> <<r.offsets>>]
    /\ UNCHANGED <<atoms, props, ang, batch, tully, md, calc>>

(* Dataset.generate_neighbor_list(cutoff, undirected) on the dataset whose
   geometries are the systems of `atoms`; props has a "lattice" key iff
   the geometries are periodic.  The first system that raises ends the
   call. *)
GenerateNeighborList ==
    /\ LET nsys == Len(atoms.num_atoms)
           r(s) == generate_neighbor_list(get_list_atoms(atoms, s - 1),
                       atoms.pbc, atoms.cutoff, ~atoms.directed)
       IN  nbrs' = [by |-> "generate_neighbor_list",
                    raised |-> IF \E s \in 1..nsys : r(s).raised # "none"
                               THEN r(1).raised ELSE "none",
                    cutoff |-> atoms.cutoff, directed |-> atoms.directed,
                    nbr_list |-> IF \E s \in 1..nsys : r(s).raised # "none"
                                 THEN <<>> ELSE [s \in 1..nsys |-> r(s).nbr_list],
                    offsets |-> IF \E s \in 1..nsys : r(s).raised # "none"
                                THEN <<>> ELSE [s \in 1..nsys |-> r(s).offsets]]
    /\ UNCHANGED <<atoms, props, ang, batch, tully, md, calc>>

----------------------------------------------------------------------------
(* The graph dataset and the calls on it *)

(* The pairs i < j of n atoms *)
UpperPairs(n) == {e \in (0..(n - 1)) \X (0..(n - 1)) : e[1] < e[2]}

(* What get_neighbor_list returns for a geometry of n atoms whose pairs
   within the cutoff are `close` (mask.nonzero(), then the undirected
   filter).  Every set of pairs of up to four atoms is the within-cutoff
   set of some geometry. *)
NbrListOfPairs(n, close, undirected) ==
    LET mask(i, j) == <<i, j>> \in close \/ <<j, i>> \in close
        nbr_list == nonzero(n, n, {e \in Entries(n, n) : mask(e[1], e[2])})
    IN  IF undirected THEN KeepUpper(nbr_list) ELSE nbr_list

(* Atom counts of the systems of a dataset *)
DatasetSizes ==
    {sz \in UNION {[1..m -> 1..MaxAtoms] : m \in 1..MaxSystems} :
        SumSeq(sz) <= MaxBatchAtoms}

RECURSIVE CloseSets(_)
CloseSets(sz) ==
    IF sz = <<>> THEN {<<>>}
    ELSE {<<c>> \o rest : c \in SUBSET UpperPairs(Head(sz)),
                          rest \in CloseSets(Tail(sz))}

(* Dataset.__init__ followed by generate_neighbor_list(cutoff, undirected)
   on non-periodic geometries; the rows of nxyz are modelled by the tags
   <<system, local atom index>> *)
DatasetProps(sz, close, undirected) ==
    [keys |-> {"nxyz", "num_atoms", "nbr_list"},
     nxyz |-> [s \in DOMAIN sz |-> [a \in 1..sz[s] |-> <<s - 1, a - 1>>]],
     num_atoms |-> sz,
     nbr_list |-> [s \in DOMAIN sz |-> NbrListOfPairs(sz[s], close[s], undirected)],
     angle_list |-> <<>>, ji_idx |-> <<>>, kj_idx |-> <<>>]

InitDataset ==
    /\ \E sz \in DatasetSizes : \E close \in CloseSets(sz) : \E u \in BOOLEAN :
          props = DatasetProps(sz, close, u)
    /\ atoms = NoAtoms
    /\ nbrs = NoNbrs
    /\ ang = NoAng
    /\ batch = NoBatch
    /\ tully = NoTully
    /\ md = NoMD
    /\ calc = NoCalc

(* angles, new_nbrs = get_angle_list(dset.props["nbr_list"]) *)
GetAngleList ==
    /\ LET r == get_angle_list(props.nbr_list)
       IN  ang' = [called |-> "get_angle_list", given |-> props.nbr_list,
                   angles |-> r.angles, new_nbrs |-> r.new_nbrs,
                   ji_idx |-> <<>>, kj_idx |-> <<>>]
    /\ UNCHANGED <<atoms, nbrs, props, batch, tully, md, calc>>

(* ji_idx, kj_idx = add_ji_kj(angles, new_nbrs) on what get_angle_list
   returned *)
AddJiKj ==
    /\ ang.called = "get_angle_list"
    /\ LET r == add_ji_kj(ang.angles, ang.new_nbrs)
       IN  ang' = [ang EXCEPT !.called = "add_ji_kj",
                              !.ji_idx = r.ji_idx, !.kj_idx = r.kj_idx]
    /\ UNCHANGED <<atoms, nbrs, props, batch, tully, md, calc>>

(* dset.generate_angle_list() *)
GenerateAngleList ==
    /\ props' = generate_angle_list(props)
    /\ UNCHANGED <<atoms, nbrs, ang, batch, tully, md, calc>>

(* collate_dicts([dset[i] for i in range(len(dset))]) *)
Collate ==
    /\ batch' = collate_dicts([s \in DOMAIN props.num_atoms |-> GetItem(props, s)])
    /\ UNCHANGED <<atoms, nbrs, props, ang, tully, md, calc>>

(* d[key] += int(n): the addition is done in the tensor d[key] refers to *)
rebind_in_place(val, shifted) == [tensor |-> shifted, bound |-> shifted]

(* d[key] = d[key] + int(n), lines 39 and 44.  The sum is a new tensor and
   the key is bound to it; `tensor` is what the tensor the key referred to
   holds after the statement, `bound` what the key is bound to *)
rebind(val, shifted) == [tensor |-> val, bound |-> shifted]

(* collate_dicts, lines 30-44: what the two reindexing loops leave behind
   for every dict: the dict `d` with its keys rebound, and `tensors`, the
   contents of the tensors the dict referred to when it was passed in *)
reindex_dicts(dicts) ==
    LET cumulative_atoms(k) == Cum([m \in DOMAIN dicts |-> dicts[m].num_atoms], k - 1)
        cumulative_nbrs(k) == Cum([m \in DOMAIN dicts |-> Len(dicts[m].nbr_list)], k - 1)
        rows(k, key, val) ==
            IF key \in REINDEX_KEYS /\ key \in dicts[k].keys
            THEN rebind(val, ShiftRows(val, cumulative_atoms(k)))
            ELSE [tensor |-> val, bound |-> val]
        idxs(k, key, val) ==
            IF key \in NBR_LIST_KEYS /\ key \in dicts[k].keys
            THEN rebind(val, ShiftIdx(val, cumulative_nbrs(k)))
            ELSE [tensor |-> val, bound |-> val]
        all(k) == [nbr_list |-> rows(k, "nbr_list", dicts[k].nbr_list),
                   angle_list |-> rows(k, "angle_list", dicts[k].angle_list),
                   ji_idx |-> idxs(k, "ji_idx", dicts[k].ji_idx),
                   kj_idx |-> idxs(k, "kj_idx", dicts[k].kj_idx)]
    IN  [k \in DOMAIN dicts |->
            [d |-> [dicts[k] EXCEPT !.nbr_list = all(k).nbr_list.bound,
                                    !.angle_list = all(k).angle_list.bound,
                                    !.ji_idx = all(k).ji_idx.bound,
                                    !.kj_idx = all(k).kj_idx.bound],
             tensors |-> [nbr_list |-> all(k).nbr_list.tensor,
                          angle_list |-> all(k).angle_list.tensor,
                          ji_idx |-> all(k).ji_idx.tensor,
                          kj_idx |-> all(k).kj_idx.tensor]]]

(* The dataset after a collation of [dset[i] for i in idx]: the values of
   the dicts that Dataset.__getitem__ returns are the stored tensors
   themselves (val[idx]), so props[key][i] holds what the tensor the dict
   of item i referred to holds *)
StoredAfter(p, idx, after) ==
    LET at(s) == CHOOSE m \in DOMAIN idx : idx[m] = s
        held(key, field(_), old) ==
            IF key \in p.keys
            THEN [s \in DOMAIN old |->
                     IF \E m \in DOMAIN idx : idx[m] = s
                     THEN field(after[at(s)].tensors) ELSE old[s]]
            ELSE old
    IN  [p EXCEPT !.nbr_list = held("nbr_list", LAMBDA t : t.nbr_list, @),
                  !.angle_list = held("angle_list", LAMBDA t : t.angle_list, @),
                  !.ji_idx = held("ji_idx", LAMBDA t : t.ji_idx, @),
                  !.kj_idx = held("kj_idx", LAMBDA t : t.kj_idx, @)]

(* The index lists a sampler hands to the loader for one batch that takes
   the whole dataset: the items in their order (sequential sampling) or in
   the opposite order (one shuffled draw) *)
BatchIndices(n) == {[m \in 1..n |-> m], [m \in 1..n |-> n - m + 1]}

(* A dataset with neighbour lists, with or without generate_angle_list()
   called on it *)
InitLoader ==
    /\ \E sz \in DatasetSizes : \E close \in CloseSets(sz) : \E u \in BOOLEAN :
          props \in {DatasetProps(sz, close, u),
                     generate_angle_list(DatasetProps(sz, close, u))}
    /\ atoms = NoAtoms
    /\ nbrs = NoNbrs
    /\ ang = NoAng
    /\ batch = NoBatch
    /\ tully = NoTully
    /\ md = NoMD
    /\ calc = NoCalc

(* batch = collate_dicts([dset[i] for i in idx]), the step of a DataLoader
   with collate_fn=collate_dicts; `dicts` keeps the per-item dicts as the
   call leaves them and `stored` the dataset as it was before its first
   batch *)
LoadBatch ==
    /\ \E idx \in BatchIndices(Len(props.num_atoms)) :
          LET dicts == [m \in DOMAIN idx |-> GetItem(props, idx[m])]
              after == reindex_dicts(dicts)
              b == collate_dicts(dicts)
          IN  /\ batch' = [made |-> TRUE,
                           idx |-> idx,
                           stored |-> IF batch.made THEN batch.stored
                                      ELSE props,
                           dicts |-> [m \in DOMAIN idx |-> after[m].d],
                           keys |-> b.keys,
                           nxyz |-> b.nxyz,
                           num_atoms |-> b.num_atoms,
                           nbr_list |-> b.nbr_list,
                           angle_list |-> b.angle_list,
                           ji_idx |-> b.ji_idx,
                           kj_idx |-> b.kj_idx]
              /\ props' = StoredAfter(props, idx, after)
    /\ UNCHANGED <<atoms, nbrs, ang, tully, md, calc>>

----------------------------------------------------------------------------
(* Conformer trimming: scripts/cp3d/make_dset/trim_confs/trim_confs.py.  A
   species holds confs_in_batch conformers of mol_size atoms each in one
   nxyz; a row of nxyz is the tag <<conformer, atom>> and a row of
   bond_features the position of its bond in the bonded neighbour list. *)

(* tensor[idx] for a 0-based index tensor idx *)
Take(tensor, idx) == [k \in DOMAIN idx |-> tensor[idx[k] + 1]]

(* get_batch_dic.  idx_dic is <<>> (None) or <<conf_idx>>, the entry of
   the species in the dictionary *)
get_batch_dic(b, idx_dic, num_confs) ==
    LET confs_in_batch == b.num_atoms \div b.mol_size
        least == IF confs_in_batch < num_confs THEN confs_in_batch
                 ELSE num_confs
        conf_idx == IF idx_dic = <<>> THEN [m \in 1..least |-> m - 1]
                    ELSE idx_dic[1]
    IN  [conf_idx |-> conf_idx,
         real_num_confs |-> Len(conf_idx),
         old_num_atoms |-> b.num_atoms,
         new_num_atoms |-> b.mol_size * least,
         confs_in_batch |-> confs_in_batch,
         mol_size |-> b.mol_size]

(* to_xyz_idx: torch.arange(start_idx, end_idx) of every kept conformer *)
to_xyz_idx(batch_dic) ==
    Flatten([m \in DOMAIN batch_dic.conf_idx |->
                [a \in 1..batch_dic.mol_size |->
                    batch_dic.conf_idx[m] * batch_dic.mol_size + a - 1]])

(* split_nbrs: for every kept conformer the positions of the edges whose
   two indices lie in [start, end] *)
split_nbrs(nbr_rows, mol_size, confs_in_batch, conf_idx) ==
    LET cutoffs == [m \in 1..confs_in_batch |-> m * mol_size - 1]
        start(i) == cutoffs[i + 1] - mol_size + 1
        end(i) == cutoffs[i + 1]
        mask(i, e) == /\ e[1] <= end(i) /\ e[2] <= end(i)
                      /\ e[1] >= start(i) /\ e[2] >= start(i)
        idx(i) == SelectSeq([k \in DOMAIN nbr_rows |-> k - 1],
                            LAMBDA k : mask(i, nbr_rows[k + 1]))
    IN  Flatten([m \in DOMAIN conf_idx |-> idx(conf_idx[m])])

(* to_nbr_idx *)
to_nbr_idx(batch_dic, nbr_rows) ==
    split_nbrs(nbr_rows, batch_dic.mol_size, batch_dic.confs_in_batch,
               batch_dic.conf_idx)

(* convert_nbrs: for i in range(len(conf_idx)):
   new_nbrs.append(nbr_rows[nbr_idx] + delta) *)
convert_nbrs(batch_dic, nbr_rows, nbr_idx) ==
    LET conf_idx == batch_dic.conf_idx
        mol_size == batch_dic.mol_size
        delta(i) == i * mol_size - conf_idx[i + 1] * mol_size
    IN  Flatten([m \in DOMAIN conf_idx |->
                    ShiftRows(Take(nbr_rows, nbr_idx), delta(m - 1))])

(* update_weights: `if torch.isnan(new_weights):` takes the truth value of
   a tensor with one entry per kept conformer, which torch defines for one
   entry only *)
update_weights(batch_dic) ==
    IF Len(batch_dic.conf_idx) = 1 THEN "none" ELSE "RuntimeError"

(* update_dset(batch, batch_dic, dataset, i), i 1-based here: the entries
   of species i are stored one after the other, the weights last *)
update_dset(b, batch_dic, dataset, i) ==
    LET conf_xyz_idx == to_xyz_idx(batch_dic)
        bond_nbr_idx == to_nbr_idx(batch_dic, b.bonded_nbr_list)
        all_nbr_idx == to_nbr_idx(batch_dic, b.nbr_list)
    IN  [dataset EXCEPT
            !.num_atoms[i] = batch_dic.new_num_atoms,
            !.nxyz[i] = Take(b.nxyz, conf_xyz_idx),
            !.bonded_nbr_list[i] = convert_nbrs(batch_dic, b.bonded_nbr_list,
                                                bond_nbr_idx),
            !.nbr_list[i] = convert_nbrs(batch_dic, b.nbr_list, all_nbr_idx),
            !.bond_features[i] = Take(b.bond_features, bond_nbr_idx),
            !.conf_idx[i] = batch_dic.conf_idx,
            !.raised = update_weights(batch_dic)]

(* trim_confs(dataset, num_confs, idx_dic) from species i on; idx_dic is
   <<>> (None) or the list of the species' entries <<conf_idx>> *)
RECURSIVE trim_confs(_, _, _, _)
trim_confs(dataset, num_confs, idx_dic, i) ==
    IF i > Len(dataset.nxyz) \/ dataset.raised # "none" THEN dataset
    ELSE LET b == [mol_size |-> dataset.mol_size[i],
                   num_atoms |-> dataset.num_atoms[i],
                   nxyz |-> dataset.nxyz[i],
                   nbr_list |-> dataset.nbr_list[i],
                   bonded_nbr_list |-> dataset.bonded_nbr_list[i],
                   bond_features |-> dataset.bond_features[i]]
             batch_dic == get_batch_dic(b, IF idx_dic = <<>> THEN <<>>
                                           ELSE <<idx_dic[i]>>, num_confs)
         IN  trim_confs(update_dset(b, batch_dic, dataset, i),
                        num_confs, idx_dic, i + 1)

(* The neighbour list of a species: every conformer has its own
   within-cutoff pairs `close[c]`, indexed from the conformer's first row *)
ConformerNbrs(mol_size, close) ==
    Flatten([c \in DOMAIN close |->
                ShiftRows(NbrListOfPairs(mol_size, close[c], FALSE),
                          (c - 1) * mol_size)])

(* The bonds of a species: a chain, atom a bonded to atom a + 1, the same
   in every conformer *)
ChainBonds(mol_size, confs) ==
    ConformerNbrs(mol_size,
        [c \in 1..confs |-> {e \in UpperPairs(mol_size) : e[2] = e[1] + 1}])

(* One species of `confs` conformers of mol_size atoms *)
Species(mol_size, confs) ==
    {[mol_size |-> mol_size,
      num_atoms |-> mol_size * confs,
      nxyz |-> Flatten([c \in 1..confs |->
                           [a \in 1..mol_size |-> <<c - 1, a - 1>>]]),
      nbr_list |-> ConformerNbrs(mol_size, close),
      bonded_nbr_list |-> ChainBonds(mol_size, confs),
      bond_features |-> [k \in DOMAIN ChainBonds(mol_size, confs) |-> k - 1]] :
        close \in [1..confs -> {{}, UpperPairs(mol_size)}]}

AllSpecies ==
    UNION {Species(mol_size, confs) :
              mol_size \in 1..MaxMolSize, confs \in 1..MaxConfs}

(* A dataset of conformer ensembles as Dataset.from_file loads it *)
InitTrim ==
    /\ \E n \in 1..MaxSystems : \E sp \in [1..n -> AllSpecies] :
          props = [keys |-> {"nxyz", "num_atoms", "mol_size", "nbr_list",
                             "bonded_nbr_list", "bond_features",
                             "atom_features", "weights"},
                   mol_size |-> [i \in 1..n |-> sp[i].mol_size],
                   num_atoms |-> [i \in 1..n |-> sp[i].num_atoms],
                   nxyz |-> [i \in 1..n |-> sp[i].nxyz],
                   nbr_list |-> [i \in 1..n |-> sp[i].nbr_list],
                   bonded_nbr_list |-> [i \in 1..n |-> sp[i].bonded_nbr_list],
                   bond_features |-> [i \in 1..n |-> sp[i].bond_features],
                   conf_idx |-> [i \in 1..n |-> <<>>],
                   old |-> <<>>, called |-> "none", raised |-> "none"]
    /\ atoms = NoAtoms
    /\ nbrs = NoNbrs
    /\ ang = NoAng
    /\ batch = NoBatch
    /\ tully = NoTully
    /\ md = NoMD
    /\ calc = NoCalc

(* The conformers idx_dic can name for a species of `confs` conformers: the
   last one, or the first and the last one *)
IdxDicEntries(confs) ==
    {<<confs - 1>>} \cup (IF confs >= 2 THEN {<<0, confs - 1>>} ELSE {})

(* trim_confs(dataset, num_confs, idx_dic) with the weights ordered, on a
   dataset that was not trimmed before *)
TrimConfs ==
    /\ props.called = "none"
    /\ \E num_confs \in 1..MaxConfs :
       \E idx_dic \in {<<>>} \cup
             {d \in [DOMAIN props.nxyz -> UNION {IdxDicEntries(c) : c \in 1..MaxConfs}] :
                 \A i \in DOMAIN d :
                    d[i] \in IdxDicEntries(props.num_atoms[i] \div props.mol_size[i])} :
          props' = trim_confs([props EXCEPT !.called = "trim_confs",
                                            !.old = props],
                              num_confs, idx_dic, 1)
    /\ UNCHANGED <<atoms, nbrs, ang, batch, tully, md, calc>>

----------------------------------------------------------------------------
(* Tully surface hopping: nff/md/tully/step.py.  One atom per sample moving
   along x; energies are integers and kinetic energies are carried doubled
   (ke2 = m * v^2) so that every comparison is exact.  A call returns
   [raised |-> "none", value |-> ...] or [raised |-> <exception>, ...]. *)

Returned(v) == [raised |-> "none", value |-> v]

Raised(name) == [raised |-> name, value |-> <<>>]

(* np.zeros called with the positional arguments `positional`: the second
   positional parameter of np.zeros is dtype, and an integer is not a data
   type *)
np_zeros(positional) ==
    IF Len(positional) >= 2
    THEN Raised("TypeError")
    ELSE Returned([k \in 1..positional[1] |-> 0])

(* ndarray.sum(axis): axis is None, an int or a tuple of ints; a list is
   rejected.  `summed` is the sum over the named axes. *)
ndarray_sum(summed, axis_type) ==
    IF axis_type = "list" THEN Raised("TypeError") ELSE Returned(summed)

(* bool(array), as `if hop:` takes it: defined for one element only *)
array_truth(size, first) ==
    IF size = 1 THEN Returned(first) ELSE Raised("ValueError")

(* compute_T: T[n][i][j] = sum over atoms and axes of vel * nacv *)
compute_T(nacv, vel) ==
    [n \in DOMAIN vel |->
        [i \in DOMAIN nacv[n] |->
            [j \in DOMAIN nacv[n][i] |-> vel[n] * nacv[n][i][j]]]]

(* get_a(c): a = np.zeros(num_samples, num_states, num_states) comes
   first; c[n][i] is the pair <<re, im>> and a[n][i][j] the real part of
   conj(c_i) * c_j, which is what a float array keeps *)
get_a(c) ==
    LET num_samples == Len(c)
        num_states == Len(c[1])
        a == np_zeros(<<num_samples, num_states, num_states>>)
    IN  IF a.raised # "none" THEN a
        ELSE Returned([n \in 1..num_samples |->
                 [i \in 1..num_states |->
                     [j \in 1..num_states |->
                         c[n][i][1] * c[n][j][1] + c[n][i][2] * c[n][j][2]]]])

(* get_p_hop(c, T, dt, surfs): p[n][i] = dt * b[n][i][surf] / a[n][surf][surf]
   with b = -2 * real(conj(a) * T); the quotient is kept as the pair
   <<numerator, denominator>> *)
get_p_hop(c, T, dt, surfs) ==
    LET a == get_a(c)
        b(n, i, j) == -2 * a.value[n][i][j] * T[n][i][j]
    IN  IF a.raised # "none" THEN a
        ELSE Returned([n \in DOMAIN surfs |->
                 [i \in DOMAIN T[n] |->
                     <<dt * b(n, i, surfs[n] + 1),
                       a.value[n][surfs[n] + 1][surfs[n] + 1]>>]])

(* p > rnd for a quotient p = <<numerator, denominator>> and a draw
   rnd = <<numerator, denominator>> of [0, 1); x / 0 is inf, -inf or nan
   in numpy, and only inf exceeds a draw *)
exceeds(p, rnd) ==
    IF p[2] = 0 THEN p[1] > 0
    ELSE IF p[2] > 0 THEN p[1] * rnd[2] > rnd[1] * p[2]
    ELSE p[1] * rnd[2] < rnd[1] * p[2]

(* get_new_surf, lines 119-129: the loop over the shuffled idx for one
   sample, from position n on.  p = p_hop[idx] indexes the samples axis
   of the whole p_hop with the list idx, and `if hop:` takes the truth
   value of the array p > rnd. *)
RECURSIVE hop_scan(_, _, _, _, _)
hop_scan(p_hop, idx, surf, rnd, n) ==
    IF n > Len(idx) THEN Returned(surf)
    ELSE IF idx[n] = surf THEN hop_scan(p_hop, idx, surf, rnd, n + 1)
    ELSE IF \E m \in DOMAIN idx : idx[m] >= Len(p_hop) THEN Raised("IndexError")
    ELSE LET p == [m \in DOMAIN idx |-> p_hop[idx[m] + 1]]
             hop == array_truth(Len(p) * Len(p[1]), exceeds(p[1][1], rnd))
         IN  IF hop.raised # "none" THEN hop
             ELSE IF hop.value THEN Returned(idx[n])
             ELSE hop_scan(p_hop, idx, surf, rnd, n + 1)

(* Variant: the candidate states are numbered from 1, idx is a shuffle of
   range(1, num_states + 1) *)
get_new_surf_one_based(p_hop, num_states, surfs, shuffles, rnds) ==
    LET num == IF Len(p_hop) < Len(surfs) THEN Len(p_hop) ELSE Len(surfs)
        idx(k) == [m \in 1..num_states |-> shuffles[k][m] + 1]
        one(k) == hop_scan(p_hop, idx(k), surfs[k], rnds[k], 1)
        bad == {k \in 1..num : one(k).raised # "none"}
    IN  IF bad # {}
        THEN one(CHOOSE k \in bad : \A m \in bad : k <= m)
        ELSE Returned([k \in 1..num |-> one(k).value])

(* get_new_surf(p_hop, num_states, surfs).  shuffles[k] is the order
   random.shuffle leaves list(range(num_states)) in for sample k and
   rnds[k] what np.random.rand() returns for it. *)
get_new_surf(p_hop, num_states, surfs, shuffles, rnds) ==
    LET num == IF Len(p_hop) < Len(surfs) THEN Len(p_hop) ELSE Len(surfs)
        idx(k) == [m \in 1..num_states |-> shuffles[k][m]]
        one(k) == hop_scan(p_hop, idx(k), surfs[k], rnds[k], 1)
        bad == {k \in 1..num : one(k).raised # "none"}
    IN  IF bad # {}
        THEN one(CHOOSE k \in bad : \A m \in bad : k <= m)
        ELSE Returned([k \in 1..num |-> one(k).value])

(* rescale(energy, vel, nacv, mass, surfs, new_surfs).  ke_par is summed
   with the axis list [-1, -2] (lines 177-178).  After it: scale is nan
   where the quotient is negative or ke_par is 0; scale has shape
   (num_samples,) and v_par (num_samples, num_atoms, 3), so scale * v_par
   broadcasts scale along the last axis; the y and z components of v_par
   are 0, and a non-finite scale makes them nan. *)
rescale(energy, vel, nacv, mass, surfs, new_surfs) ==
    LET num_samples == Len(vel)
        old_en(n) == energy[n][surfs[n] + 1]
        new_en(n) == energy[n][new_surfs[n] + 1]
        pair_nacv(n) == nacv[n][surfs[n] + 1][new_surfs[n] + 1]
        norm(n) == IF pair_nacv(n) = 0 THEN 1 ELSE Abs(pair_nacv(n))
        nac_dir(n) == pair_nacv(n) \div norm(n)
        v_par(n) == (nac_dir(n) * vel[n]) * nac_dir(n)
        ke2_par == ndarray_sum([n \in 1..num_samples |->
                                   mass[1] * v_par(n) * v_par(n)], "list")
        scale_nan(n) == \/ ke2_par.value[n] = 0
                        \/ 2 * (old_en(n) - new_en(n)) + ke2_par.value[n] < 0
    IN  IF ke2_par.raised # "none" THEN ke2_par
        ELSE IF num_samples \notin {1, 3} THEN Raised("ValueError")
        ELSE Returned([n \in 1..num_samples |->
                 [nan |-> \E m \in 1..num_samples : scale_nan(m),
                  scale_squared |-> <<2 * (old_en(1) - new_en(1))
                                        + ke2_par.value[1], ke2_par.value[1]>>,
                  v_par |-> v_par(n),
                  vel |-> vel[n]]])

(* try_hop(c, T, dt, surfs, vel, nacv, mass, energy): (new_surfs, new_vel),
   with the samples whose new_vel holds a nan reset to surfs and vel *)
try_hop(c, T, dt, surfs, vel, nacv, mass, energy, shuffles, rnds) ==
    LET p_hop == get_p_hop(c, T, dt, surfs)
        num_states == Len(energy[1])
        new_surfs == get_new_surf(p_hop.value, num_states, surfs, shuffles, rnds)
        new_vel == rescale(energy, vel, nacv, mass, surfs, new_surfs.value)
        frustrated == {n \in DOMAIN vel : new_vel.value[n].nan}
    IN  IF p_hop.raised # "none" THEN p_hop
        ELSE IF new_surfs.raised # "none" THEN new_surfs
        ELSE IF new_vel.raised # "none" THEN new_vel
        ELSE Returned([picked |-> new_surfs.value,
                 new_surfs |-> [n \in DOMAIN surfs |->
                     IF n \in frustrated THEN surfs[n] ELSE new_surfs.value[n]],
                 new_vel |-> [n \in DOMAIN vel |->
                     IF n \in frustrated THEN vel[n] ELSE new_vel.value[n]]])

(* The surface-hopping state of num_samples trajectories: the active
   surface and the x velocity of the one atom of each sample, before any
   primitive was called *)
TullyStates ==
    {[num_states |-> ns, surfs |-> sf, vel |-> v, mass |-> <<1>>,
      called |-> "none", raised |-> "none", old_surfs |-> sf, old_vel |-> v,
      energy |-> <<>>, nacv |-> <<>>, picked |-> <<>>] :
        ns \in 1..MaxStates,
        sf \in UNION {[1..n -> 0..(MaxStates - 1)] : n \in 1..MaxSamples},
        v \in UNION {[1..n -> 0..2] : n \in 1..MaxSamples}}

InitTully ==
    /\ tully \in {t \in TullyStates :
                    /\ Len(t.surfs) = Len(t.vel)
                    /\ \A n \in DOMAIN t.surfs : t.surfs[n] < t.num_states}
    /\ atoms = NoAtoms
    /\ nbrs = NoNbrs
    /\ props = NoProps
    /\ ang = NoAng
    /\ batch = NoBatch
    /\ md = NoMD
    /\ calc = NoCalc

(* What the oracle and the electronic propagation hand to a hop attempt:
   energies on a ladder (state i has energy i), couplings of magnitude d
   along x between every pair of states (antisymmetric, zero diagonal),
   and amplitudes c that sit on the active surface *)
LadderEnergy(ns, num) == [n \in 1..num |-> [i \in 1..ns |-> i - 1]]

PairNacv(ns, num, d) ==
    [n \in 1..num |->
        [i \in 1..ns |->
            [j \in 1..ns |-> IF i < j THEN d ELSE IF i > j THEN -d ELSE 0]]]

AmplitudesOn(ns, surfs) ==
    [n \in DOMAIN surfs |->
        [i \in 1..ns |-> IF i = surfs[n] + 1 THEN <<1, 0>> ELSE <<0, 0>>]]

(* The outcomes of random.shuffle that the model draws: ascending and
   descending order *)
Shuffles(ns) == {[m \in 1..ns |-> m - 1], [m \in 1..ns |-> ns - m]}

(* The outcomes of np.random.rand() that the model draws: 0 and 1/2, the
   same for every draw of one call *)
Draws == {<<0, 1>>, <<1, 2>>}

(* Hopping probabilities a caller of get_new_surf passes: 0, 1/2 or 1 for
   every state of every sample *)
HopProbabilities(ns, num) ==
    {[n \in 1..num |-> [i \in 1..ns |-> q]] :
        q \in {<<0, 1>>, <<1, 2>>, <<1, 1>>}}

(* new_surfs = get_new_surf(p_hop, num_states, surfs); the caller keeps
   new_surfs as the active surfaces *)
GetNewSurf ==
    \E p_hop \in HopProbabilities(tully.num_states, Len(tully.surfs)),
       shuffles \in [DOMAIN tully.surfs -> Shuffles(tully.num_states)],
       rnds \in {[n \in DOMAIN tully.surfs |-> r] : r \in Draws} :
        /\ LET r == get_new_surf(p_hop, tully.num_states, tully.surfs,
                                 shuffles, rnds)
           IN  tully' = [tully EXCEPT
                   !.called = "get_new_surf",
                   !.raised = r.raised,
                   !.old_surfs = tully.surfs,
                   !.old_vel = tully.vel,
                   !.surfs = IF r.raised = "none" THEN r.value ELSE tully.surfs,
                   !.energy = <<>>, !.nacv = <<>>, !.picked = <<>>]
        /\ UNCHANGED <<atoms, nbrs, props, ang, batch, md, calc>>

(* new_vel = rescale(energy, vel, nacv, mass, surfs, new_surfs) for a
   proposed new surface of every sample; the caller keeps new_vel *)
Rescale ==
    \E d \in 0..1,
       new_surfs \in [DOMAIN tully.surfs -> 0..(tully.num_states - 1)] :
        /\ LET num == Len(tully.surfs)
               energy == LadderEnergy(tully.num_states, num)
               nacv == PairNacv(tully.num_states, num, d)
               r == rescale(energy, tully.vel, nacv, tully.mass,
                            tully.surfs, new_surfs)
           IN  tully' = [tully EXCEPT
                   !.called = "rescale",
                   !.raised = r.raised,
                   !.old_surfs = tully.surfs,
                   !.old_vel = tully.vel,
                   !.vel = IF r.raised = "none" THEN r.value ELSE tully.vel,
                   !.energy = <<>>, !.nacv = <<>>, !.picked = <<>>]
        /\ UNCHANGED <<atoms, nbrs, props, ang, batch, md, calc>>

(* new_surfs, new_vel = try_hop(c, T, dt, surfs, vel, nacv, mass, energy)
   with T of compute_T and dt = 1; the caller keeps both results *)
TryHop ==
    \E d \in 0..1,
       shuffles \in [DOMAIN tully.surfs -> Shuffles(tully.num_states)],
       rnds \in {[n \in DOMAIN tully.surfs |-> r] : r \in Draws} :
        /\ LET num == Len(tully.surfs)
               energy == LadderEnergy(tully.num_states, num)
               nacv == PairNacv(tully.num_states, num, d)
               c == AmplitudesOn(tully.num_states, tully.surfs)
               r == try_hop(c, compute_T(nacv, tully.vel), 1, tully.surfs,
                            tully.vel, nacv, tully.mass, energy, shuffles, rnds)
           IN  tully' = [tully EXCEPT
                   !.called = "try_hop",
                   !.raised = r.raised,
                   !.old_surfs = tully.surfs,
                   !.old_vel = tully.vel,
                   !.surfs = IF r.raised = "none" THEN r.value.new_surfs
                             ELSE tully.surfs,
                   !.vel = IF r.raised = "none" THEN r.value.new_vel
                           ELSE tully.vel,
                   !.energy = energy, !.nacv = nacv,
                   !.picked = IF r.raised = "none" THEN r.value.picked ELSE <<>>]
        /\ UNCHANGED <<atoms, nbrs, props, ang, batch, md, calc>>

----------------------------------------------------------------------------
(* get_new_surf on recorded inputs: the hopping probabilities of every
   sample and state, the order random.shuffle leaves for every sample and
   the number np.random.rand() returns for it are part of the state *)

(* The probabilities get_p_hop can hand over: 0, 1/2 or 1 for every sample
   and state, chosen independently *)
HopProbabilityArrays(ns, num) ==
    [1..num -> [1..ns -> {<<0, 1>>, <<1, 2>>, <<1, 1>>}]]

InitNewSurf ==
    /\ \E ns \in 1..MaxStates : \E num \in 1..MaxSamples :
       \E surfs \in [1..num -> 0..(ns - 1)] :
       \E p_hop \in HopProbabilityArrays(ns, num) :
       \E shuffles \in [1..num -> Shuffles(ns)] :
       \E rnds \in [1..num -> Draws] :
          tully = [num_states |-> ns, surfs |-> surfs, old_surfs |-> surfs,
                   p_hop |-> p_hop, shuffles |-> shuffles, rnds |-> rnds,
                   called |-> "none", raised |-> "none"]
    /\ atoms = NoAtoms
    /\ nbrs = NoNbrs
    /\ props = NoProps
    /\ ang = NoAng
    /\ batch = NoBatch
    /\ md = NoMD
    /\ calc = NoCalc

(* surfs = get_new_surf(p_hop, num_states, surfs) *)
NewSurf ==
    /\ tully.called = "none"
    /\ LET r == get_new_surf(tully.p_hop, tully.num_states, tully.surfs,
                             tully.shuffles, tully.rnds)
       IN  tully' = [tully EXCEPT
               !.called = "get_new_surf",
               !.raised = r.raised,
               !.surfs = IF r.raised = "none" THEN r.value ELSE tully.surfs]
    /\ UNCHANGED <<atoms, nbrs, props, ang, batch, md, calc>>

----------------------------------------------------------------------------
(* get_p_hop on recorded inputs: the amplitudes c, the velocity-coupling
   product T of compute_T and the nuclear time step dt are part of the
   state *)

(* Amplitudes with sum(|c_i|^2) = 1 that integers can carry: for every
   sample one state carries 1 or i *)
SampleAmplitudes(ns, num) ==
    [1..num -> {[i \in 1..ns |-> IF i = s THEN u ELSE <<0, 0>>] :
                   s \in 1..ns, u \in {<<1, 0>>, <<0, 1>>}}]

InitPHop ==
    /\ \E ns \in 1..MaxStates : \E num \in 1..MaxSamples :
       \E surfs \in [1..num -> 0..(ns - 1)] :
       \E c \in SampleAmplitudes(ns, num) :
       \E vel \in [1..num -> 0..1] : \E d \in 0..1 :
          tully = [num_states |-> ns, surfs |-> surfs, c |-> c,
                   T |-> compute_T(PairNacv(ns, num, d), vel), dt |-> 1,
                   p_hop |-> <<>>, called |-> "none", raised |-> "none"]
    /\ atoms = NoAtoms
    /\ nbrs = NoNbrs
    /\ props = NoProps
    /\ ang = NoAng
    /\ batch = NoBatch
    /\ md = NoMD
    /\ calc = NoCalc

(* p_hop = get_p_hop(c, T, dt, surfs) *)
GetPHop ==
    /\ tully.called = "none"
    /\ LET r == get_p_hop(tully.c, tully.T, tully.dt, tully.surfs)
       IN  tully' = [tully EXCEPT
               !.called = "get_p_hop",
               !.raised = r.raised,
               !.p_hop = r.value]
    /\ UNCHANGED <<atoms, nbrs, props, ang, batch, md, calc>>

----------------------------------------------------------------------------
(* Velocity Verlet: nff/md/tully/step.py verlet_step_1 and verlet_step_2 for
   num_samples samples of num_atoms atoms moving along x.  forces[s][i][a]
   is the x force of state i (1-based position i + 1) on atom a of sample
   s, mass[a] the mass of atom a.  A quotient is the pair
   <<numerator, denominator>>. *)

(* The shape numpy broadcasts two leading axis lengths to, <<>> when they
   cannot be broadcast together *)
broadcast_len(m, n) ==
    IF m = n \/ n = 1 THEN <<m>> ELSE IF m = 1 THEN <<n>> ELSE <<>>

(* Variant: every sample is given the active-surface force of its own
   surface in the first sample *)
surf_forces_of_first_sample(forces, surfs) ==
    [s \in DOMAIN forces |-> forces[1][surfs[s] + 1]]

(* np.take_along_axis(forces, surfs.reshape(-1, 1, 1, 1), axis=1).squeeze(1) *)
surf_forces_of(forces, surfs) ==
    [s \in DOMAIN forces |-> forces[s][surfs[s] + 1]]

(* accel = surf_forces / mass.reshape(-1, 1, 1).  surf_forces has shape
   (num_samples, num_atoms, 3) and the reshaped mass (num_atoms, 1, 1), so
   the first axis of surf_forces is broadcast against the axis of mass:
   row r of the quotient is row r of surf_forces (row 0 when there is one
   sample) divided by mass[r] (mass[0] when there is one atom).  accel[r][a]
   is the pair <<force, mass>>. *)
accel_of(surf_forces, mass) ==
    LET num_samples == Len(surf_forces)
        num_atoms == Len(mass)
        rows == broadcast_len(num_samples, num_atoms)
    IN  IF rows = <<>> THEN Raised("ValueError")
        ELSE Returned([r \in 1..rows[1] |->
                 [a \in 1..num_atoms |->
                     <<surf_forces[IF num_samples = 1 THEN 1 ELSE r][a],
                       mass[IF num_atoms = 1 THEN 1 ELSE r]>>]])

(* vel + 0.5 * nuc_dt * accel: vel has num_samples rows, accel the rows of
   accel_of; the sum is <<2 m v + dt f, 2 m>> *)
half_kick(vel, accel, nuc_dt) ==
    LET rows == broadcast_len(Len(accel), Len(vel))
    IN  IF rows = <<>> THEN Raised("ValueError")
        ELSE Returned([r \in 1..rows[1] |->
                 [a \in DOMAIN accel[1] |->
                     LET v == vel[IF Len(vel) = 1 THEN 1 ELSE r][a]
                         q == accel[IF Len(accel) = 1 THEN 1 ELSE r][a]
                     IN  <<2 * q[2] * v + nuc_dt * q[1], 2 * q[2]>>]])

(* xyz + vel * nuc_dt + 0.5 * accel * nuc_dt ** 2, as
   <<2 m (x + v dt) + f dt^2, 2 m>> *)
drift(xyz, vel, accel, nuc_dt) ==
    LET rows == broadcast_len(Len(accel), Len(xyz))
    IN  IF rows = <<>> THEN Raised("ValueError")
        ELSE Returned([r \in 1..rows[1] |->
                 [a \in DOMAIN accel[1] |->
                     LET k == IF Len(xyz) = 1 THEN 1 ELSE r
                         q == accel[IF Len(accel) = 1 THEN 1 ELSE r][a]
                     IN  <<2 * q[2] * (xyz[k][a] + vel[k][a] * nuc_dt)
                             + q[1] * nuc_dt * nuc_dt, 2 * q[2]>>]])

(* verlet_step_1(forces, surfs, vel, xyz, mass, nuc_dt): (new_xyz, new_vel) *)
verlet_step_1(forces, surfs, vel, xyz, mass, nuc_dt) ==
    LET accel == accel_of(surf_forces_of(forces, surfs), mass)
        new_xyz == drift(xyz, vel, accel.value, nuc_dt)
        new_vel == half_kick(vel, accel.value, nuc_dt)
    IN  IF accel.raised # "none" THEN accel
        ELSE IF new_xyz.raised # "none" THEN new_xyz
        ELSE IF new_vel.raised # "none" THEN new_vel
        ELSE Returned([new_xyz |-> new_xyz.value, new_vel |-> new_vel.value])

(* verlet_step_2(forces, surfs, vel, xyz, mass, nuc_dt): new_vel *)
verlet_step_2(forces, surfs, vel, xyz, mass, nuc_dt) ==
    LET accel == accel_of(surf_forces_of(forces, surfs), mass)
        new_vel == half_kick(vel, accel.value, nuc_dt)
    IN  IF accel.raised # "none" THEN accel
        ELSE IF new_vel.raised # "none" THEN new_vel
        ELSE Returned([new_xyz |-> <<>>, new_vel |-> new_vel.value])

(* The arguments of a Verlet step: forces 0 or 1 on every atom in every
   state, masses 1 or 2, atom a at x = a, one velocity 0 or 1 per sample,
   nuc_dt 1 or 2 *)
InitVerlet ==
    /\ \E ns \in 1..MaxStates : \E num \in 1..MaxSamples :
       \E na \in 1..MaxTullyAtoms :
       \E surfs \in [1..num -> 0..(ns - 1)] :
       \E forces \in [1..num -> [1..ns -> [1..na -> 0..1]]] :
       \E mass \in [1..na -> 1..2] :
       \E v \in [1..num -> 0..1] : \E nuc_dt \in 1..2 :
          tully = [num_states |-> ns, surfs |-> surfs, forces |-> forces,
                   mass |-> mass, nuc_dt |-> nuc_dt,
                   vel |-> [s \in 1..num |-> [a \in 1..na |-> v[s]]],
                   xyz |-> [s \in 1..num |-> [a \in 1..na |-> a - 1]],
                   new_xyz |-> <<>>, new_vel |-> <<>>,
                   called |-> "none", raised |-> "none"]
    /\ atoms = NoAtoms
    /\ nbrs = NoNbrs
    /\ props = NoProps
    /\ ang = NoAng
    /\ batch = NoBatch
    /\ md = NoMD
    /\ calc = NoCalc

(* new_xyz, new_vel = verlet_step_1(forces, surfs, vel, xyz, mass, nuc_dt) *)
VerletStep1 ==
    /\ tully.called = "none"
    /\ LET r == verlet_step_1(tully.forces, tully.surfs, tully.vel,
                              tully.xyz, tully.mass, tully.nuc_dt)
       IN  tully' = [tully EXCEPT
               !.called = "verlet_step_1",
               !.raised = r.raised,
               !.new_xyz = IF r.raised = "none" THEN r.value.new_xyz ELSE <<>>,
               !.new_vel = IF r.raised = "none" THEN r.value.new_vel ELSE <<>>]
    /\ UNCHANGED <<atoms, nbrs, props, ang, batch, md, calc>>

(* new_vel = verlet_step_2(forces, surfs, vel, xyz, mass, nuc_dt) *)
VerletStep2 ==
    /\ tully.called = "none"
    /\ LET r == verlet_step_2(tully.forces, tully.surfs, tully.vel,
                              tully.xyz, tully.mass, tully.nuc_dt)
       IN  tully' = [tully EXCEPT
               !.called = "verlet_step_2",
               !.raised = r.raised,
               !.new_vel = IF r.raised = "none" THEN r.value.new_vel ELSE <<>>]
    /\ UNCHANGED <<atoms, nbrs, props, ang, batch, md, calc>>

----------------------------------------------------------------------------
(* Two calls of one primitive on batches that agree in sample `same`: batch
   b is batch a with the inputs of every other sample changed.  The
   surfaces of both batches are part of the state; the other arguments are
   drawn when the primitive is called. *)

(* The batch b of a per-sample argument: sample `same` as in a, every other
   sample as `other` gives it *)
ChangeOthers(val_a, same, other) ==
    [s \in DOMAIN val_a |-> IF s = same THEN val_a[s] ELSE other[s]]

(* What a per-sample binary argument can be changed to: kept, or flipped in
   every sample *)
Changes(val_a) == {val_a, [s \in DOMAIN val_a |-> 1 - val_a[s]]}

InitTwin ==
    /\ \E ns \in 1..MaxStates : \E num \in 1..MaxSamples :
       \E same \in 1..num :
       \E surfs_a \in [1..num -> 0..(ns - 1)] :
       \E shift \in 0..(ns - 1) :
          tully = [num_states |-> ns, same |-> same, surfs_a |-> surfs_a,
                   surfs_b |-> ChangeOthers(surfs_a, same,
                                  [s \in 1..num |-> (surfs_a[s] + shift) % ns]),
                   args_a |-> <<>>, args_b |-> <<>>,
                   out_a |-> Raised("none"), out_b |-> Raised("none"),
                   called |-> "none"]
    /\ atoms = NoAtoms
    /\ nbrs = NoNbrs
    /\ props = NoProps
    /\ ang = NoAng
    /\ batch = NoBatch
    /\ md = NoMD
    /\ calc = NoCalc

(* verlet_step_1 on both batches: as many atoms as samples, atom a of mass
   a at x = a - 1; the force of state i on every atom of sample s is
   f[s] * (i + 1) and the velocity of every atom of sample s is v[s] *)
TwinVerletStep1 ==
    /\ tully.called = "none"
    /\ \E f_a \in [DOMAIN tully.surfs_a -> 0..1],
          v_a \in [DOMAIN tully.surfs_a -> 0..1] :
       \E f_b \in {ChangeOthers(f_a, tully.same, x) : x \in Changes(f_a)},
          v_b \in {ChangeOthers(v_a, tully.same, x) : x \in Changes(v_a)} :
          LET num == Len(tully.surfs_a)
              mass == [a \in 1..num |-> a]
              xyz == [s \in 1..num |-> [a \in 1..num |-> a - 1]]
              forces(f) == [s \in 1..num |->
                              [i \in 1..tully.num_states |->
                                  [a \in 1..num |-> f[s] * i]]]
              vel(v) == [s \in 1..num |-> [a \in 1..num |-> v[s]]]
              per_sample(r) ==
                  IF r.raised # "none" THEN r
                  ELSE Returned([s \in DOMAIN r.value.new_vel |->
                           <<r.value.new_xyz[s], r.value.new_vel[s]>>])
          IN  tully' = [tully EXCEPT
                  !.called = "verlet_step_1",
                  !.args_a = <<f_a, v_a>>,
                  !.args_b = <<f_b, v_b>>,
                  !.out_a = per_sample(verlet_step_1(forces(f_a),
                                tully.surfs_a, vel(v_a), xyz, mass, 1)),
                  !.out_b = per_sample(verlet_step_1(forces(f_b),
                                tully.surfs_b, vel(v_b), xyz, mass, 1))]
    /\ UNCHANGED <<atoms, nbrs, props, ang, batch, md, calc>>

(* get_new_surf on both batches: sample s has the hopping probability p[s]
   (0 or 1) to every state; the shuffle and the draw made for a sample are
   the same in both calls *)
TwinGetNewSurf ==
    /\ tully.called = "none"
    /\ \E p_a \in [DOMAIN tully.surfs_a -> 0..1],
          shuffle \in Shuffles(tully.num_states) :
       \E p_b \in {ChangeOthers(p_a, tully.same, x) : x \in Changes(p_a)} :
          LET num == Len(tully.surfs_a)
              p_hop(p) == [s \in 1..num |->
                             [i \in 1..tully.num_states |-> <<p[s], 1>>]]
              shuffles == [s \in 1..num |-> shuffle]
              rnds == [s \in 1..num |-> <<1, 2>>]
          IN  tully' = [tully EXCEPT
                  !.called = "get_new_surf",
                  !.args_a = <<p_a, shuffle>>,
                  !.args_b = <<p_b, shuffle>>,
                  !.out_a = get_new_surf(p_hop(p_a), tully.num_states,
                                         tully.surfs_a, shuffles, rnds),
                  !.out_b = get_new_surf(p_hop(p_b), tully.num_states,
                                         tully.surfs_b, shuffles, rnds)]
    /\ UNCHANGED <<atoms, nbrs, props, ang, batch, md, calc>>

(* rescale on both batches, for a hop of every sample to the next state:
   one atom of mass 1 per sample, velocity v[s], energies on a ladder and
   couplings of magnitude d *)
TwinRescale ==
    /\ tully.called = "none"
    /\ \E v_a \in [DOMAIN tully.surfs_a -> 0..1], d \in 0..1 :
       \E v_b \in {ChangeOthers(v_a, tully.same, x) : x \in Changes(v_a)} :
          LET num == Len(tully.surfs_a)
              ns == tully.num_states
              next(surfs) == [s \in 1..num |-> (surfs[s] + 1) % ns]
          IN  tully' = [tully EXCEPT
                  !.called = "rescale",
                  !.args_a = <<v_a, d>>,
                  !.args_b = <<v_b, d>>,
                  !.out_a = rescale(LadderEnergy(ns, num), v_a,
                                    PairNacv(ns, num, d), <<1>>,
                                    tully.surfs_a, next(tully.surfs_a)),
                  !.out_b = rescale(LadderEnergy(ns, num), v_b,
                                    PairNacv(ns, num, d), <<1>>,
                                    tully.surfs_b, next(tully.surfs_b))]
    /\ UNCHANGED <<atoms, nbrs, props, ang, batch, md, calc>>

----------------------------------------------------------------------------
(* Electronic propagation: nff/md/tully/step.py get_dc_dt and runge_c for
   one sample.  A complex number is the record [re, im, den] standing for
   (re + i im) / den with integer re, im and den > 0, so that the
   Runge-Kutta arithmetic is exact; a real fraction is <<num, den>>.
   SubSeq(f, 1, Len(f)) is f as an evaluated tuple, which keeps the
   evaluation of the four nested stages shallow. *)

RECURSIVE GCD(_, _)
GCD(a, b) == IF b = 0 THEN a ELSE GCD(b, a % b)

LCM(a, b) == (a \div GCD(a, b)) * b

(* The complex number in lowest terms *)
CReduce(z) ==
    LET g == GCD(GCD(Abs(z.re), Abs(z.im)), z.den)
    IN  [re |-> z.re \div g, im |-> z.im \div g, den |-> z.den \div g]

CAdd(a, b) ==
    LET l == LCM(a.den, b.den)
    IN  CReduce([re |-> a.re * (l \div a.den) + b.re * (l \div b.den),
                 im |-> a.im * (l \div a.den) + b.im * (l \div b.den),
                 den |-> l])

(* z times the real fraction num / den (den > 0) *)
CScale(z, num, den) ==
    CReduce([re |-> z.re * num, im |-> z.im * num, den |-> z.den * den])

(* 1j * z *)
CTimesI(z) == [re |-> 0 - z.im, im |-> z.re, den |-> z.den]

CZero == [re |-> 0, im |-> 0, den |-> 1]

RECURSIVE CSum(_)
CSum(zs) == IF zs = <<>> THEN CZero ELSE CAdd(Head(zs), CSum(Tail(zs)))

(* coupling = np.einsum('nij, nj-> ni', T, c) for one sample *)
coupling(T, c) ==
    SubSeq([i \in DOMAIN c |->
               CSum([j \in DOMAIN c |-> CScale(c[j], T[i][j], 1)])],
           1, Len(c))

(* get_dc_dt: dc_dt = -(1j * w * c + coupling) with w = energy / hbar,
   hbar = 1 *)
get_dc_dt(c, vel, nacv, energy) ==
    LET T == compute_T(<<nacv>>, <<vel>>)[1]
        coup == coupling(T, c)
    IN  SubSeq([i \in DOMAIN c |->
                   CScale(CAdd(CScale(CTimesI(c[i]), energy[i], 1), coup[i]),
                          -1, 1)],
               1, Len(c))

(* c + (num / den) * k, componentwise *)
c_plus(c, k, num, den) ==
    SubSeq([i \in DOMAIN c |-> CAdd(c[i], CScale(k[i], num, den))], 1, Len(c))

(* runge_c: k1..k4 are taken with the step elec_dt = <<num, den>>, and
   new_c = c + 1 / 6 * (k1 + 2 * k2 + 2 * k3 + k4) *)
runge_c(c, vel, nacv, energy, elec_dt) ==
    LET deriv(x) == get_dc_dt(x, vel, nacv, energy)
        k1 == deriv(c)
        k2 == deriv(c_plus(c, k1, elec_dt[1], 2 * elec_dt[2]))
        k3 == deriv(c_plus(c, k2, elec_dt[1], 2 * elec_dt[2]))
        k4 == deriv(c_plus(c, k3, elec_dt[1], elec_dt[2]))
        slope == SubSeq([i \in DOMAIN c |->
                     CSum(<<k1[i], CScale(k2[i], 2, 1), CScale(k3[i], 2, 1),
                            k4[i]>>)], 1, Len(c))
    IN  c_plus(c, slope, 1, 6)

(* sum(|c_i|^2) as a fraction <<num, den>> *)
norm_c(c) ==
    LET l == LCM(IF Len(c) = 2 THEN LCM(c[1].den, c[2].den) ELSE c[1].den, 1)
        part(z) == (Sq(z.re) + Sq(z.im)) * Sq(l \div z.den)
    IN  <<SumSeq([i \in DOMAIN c |-> part(c[i])]), Sq(l)>>

(* The electronic steps the nuclear step is divided into: elec_dt = 1/8 in
   the units in which the energies and couplings below are 0 or 1; and the
   step of no duration, elec_dt = 0 *)
ElecDts == {<<1, 8>>, <<0, 1>>}

(* Normalised coefficients: one state carries 1, -1, i or -i *)
UnitAmplitudes(ns) ==
    {[i \in 1..ns |-> IF i = s THEN [re |-> u[1], im |-> u[2], den |-> 1]
                      ELSE CZero] :
        s \in 1..ns, u \in {<<1, 0>>, <<-1, 0>>, <<0, 1>>, <<0, -1>>}}

(* The state before an electronic step: coefficients with sum(|c_i|^2) = 1,
   the velocity of the atom, energies of the states and the coupling
   between them (antisymmetric, as in PairNacv) *)
InitElec ==
    /\ \E ns \in 1..2 : \E c \in UnitAmplitudes(ns) : \E vel \in 0..1 :
       \E d \in 0..1 : \E energy \in [1..ns -> 0..1] : \E elec_dt \in ElecDts :
          tully = [called |-> "none", c |-> c, old_c |-> c, vel |-> vel,
                   nacv |-> PairNacv(ns, 1, d)[1], energy |-> energy,
                   elec_dt |-> elec_dt]
    /\ atoms = NoAtoms
    /\ nbrs = NoNbrs
    /\ props = NoProps
    /\ ang = NoAng
    /\ batch = NoBatch
    /\ md = NoMD
    /\ calc = NoCalc

(* new_c, T = runge_c(c, vel, nacv, energy, elec_dt) on normalised c *)
RungeC ==
    /\ tully.called = "none"
    /\ tully' = [tully EXCEPT
                    !.called = "runge_c",
                    !.c = runge_c(tully.c, tully.vel, tully.nacv,
                                  tully.energy, tully.elec_dt)]
    /\ UNCHANGED <<atoms, nbrs, props, ang, batch, md, calc>>

----------------------------------------------------------------------------
(* Molecular-dynamics drivers: nff/md/nvt.py NoseHoover.run and
   BatchNoseHoover.run (the two bodies are the same statements) *)

(* ase Dynamics.run() as the drivers call it, without arguments: step()
   and nsteps += 1 while nsteps < max_steps *)
Dynamics_run(nsteps, max_steps) ==
    IF nsteps < max_steps THEN max_steps ELSE nsteps

(* self.atoms.update_nbr_list() of the driver's atoms object: the
   AtomsBatch method, or BulkPhaseMaterials.update_nbr_list, which builds
   its lists with ase's neighbor_list *)
atoms_update_nbr_list(atoms_cls, ab) ==
    IF atoms_cls = "AtomsBatch" THEN update_nbr_list(ab).raised ELSE "none"

(* math.ceil(steps / self.nbr_update_period) *)
epochs_of(steps, nbr_update_period) ==
    (steps + nbr_update_period - 1) \div nbr_update_period

(* int(steps / epochs), the same in every epoch e *)
steps_of_epoch(steps, epochs, e) == steps \div epochs

(* for _ in range(epochs): self.max_steps += steps_per_epoch;
   Dynamics.run(self); self.atoms.update_nbr_list().  nbr_updates counts
   the calls of update_nbr_list that were made and max_block is the largest
   number of steps one Dynamics.run integrated between two of them. *)
RECURSIVE run_epochs(_, _, _, _, _)
run_epochs(d, ab, steps, epochs, e) ==
    IF e > epochs \/ d.raised # "none" THEN d
    ELSE LET max_steps == d.max_steps + steps_of_epoch(steps, epochs, e)
             nsteps == Dynamics_run(d.nsteps, max_steps)
             after == [d EXCEPT !.max_steps = max_steps,
                                !.nsteps = nsteps,
                                !.max_block = IF nsteps - d.nsteps > d.max_block
                                              THEN nsteps - d.nsteps
                                              ELSE d.max_block,
                                !.nbr_updates = d.nbr_updates + 1,
                                !.raised = atoms_update_nbr_list(d.atoms_cls, ab)]
         IN  run_epochs(after, ab, steps, epochs, e + 1)

(* run(self, steps=None).  An optional integer is the sequence <<n>>, and
   None is the empty sequence; None / nbr_update_period is a TypeError. *)
run(d, ab, steps_arg) ==
    LET given == IF steps_arg = <<>> THEN d.num_steps ELSE steps_arg
        steps == IF given = <<>> THEN 0 ELSE given[1]
        called == [d EXCEPT !.called = "run", !.raised = "none",
                            !.steps = steps, !.nsteps_before = d.nsteps,
                            !.nbr_updates = 0, !.max_block = 0]
    IN  IF given = <<>>
        THEN [called EXCEPT !.raised = "TypeError"]
        ELSE IF atoms_update_nbr_list(d.atoms_cls, ab) # "none"
        THEN [called EXCEPT !.raised = atoms_update_nbr_list(d.atoms_cls, ab)]
        ELSE run_epochs([called EXCEPT !.nbr_updates = 1], ab, steps,
                        epochs_of(steps, d.nbr_update_period), 1)

(* The atoms objects given to a driver: an AtomsBatch of one atom, or a
   BulkPhaseMaterials object, whose fields the run loop does not read *)
MDAtoms ==
    {a \in AtomsBatches : a.positions = <<0>> /\ a.num_atoms = <<1>>
                            /\ a.cutoff = 1}

(* NoseHoover.__init__ / BatchNoseHoover.__init__: num_steps = max_steps
   (None by default), n_steps = 0, max_steps = 0; ase sets nsteps = 0 *)
InitMD ==
    /\ \E cls \in {"NoseHoover", "BatchNoseHoover"} :
       \E atoms_cls \in {"AtomsBatch", "BulkPhaseMaterials"} :
       \E period \in 1..MaxPeriod : \E num_steps \in {<<>>, <<MaxRunSteps>>} :
          /\ md = [cls |-> cls, atoms_cls |-> atoms_cls,
                   nbr_update_period |-> period, num_steps |-> num_steps,
                   nsteps |-> 0, max_steps |-> 0, nbr_updates |-> 0,
                   max_block |-> 0,
                   called |-> "none", raised |-> "none",
                   steps |-> 0, nsteps_before |-> 0]
          /\ IF atoms_cls = "AtomsBatch" THEN atoms \in MDAtoms
             ELSE atoms = NoAtoms
    /\ nbrs = NoNbrs
    /\ props = NoProps
    /\ ang = NoAng
    /\ batch = NoBatch
    /\ tully = NoTully
    /\ calc = NoCalc

(* dyn.run(steps) or dyn.run() *)
Run ==
    /\ \E steps \in {<<>>} \cup {<<n>> : n \in 1..MaxRunSteps} :
          /\ md.nsteps + (IF steps = <<>> THEN MaxRunSteps ELSE steps[1])
                <= MaxTotalSteps
          /\ md' = run(md, atoms, steps)
    /\ UNCHANGED <<atoms, nbrs, props, ang, batch, tully, calc>>

----------------------------------------------------------------------------
(* The ASE calculator: nff/io/ase.py NeuralFF.calculate, with the harmonic
   bond energy of nff/nn/modules/schnet.py BondPrior.forward as the energy
   of the model it evaluates.  Two atoms on the x axis, one bond. *)

(* nff/utils/constants.py:9  EV_TO_KCAL_MOL = 23.06052, as the fraction
   EV_TO_KCAL_MOL_NUM / EV_TO_KCAL_MOL_DEN *)
EV_TO_KCAL_MOL_NUM == 2306052

EV_TO_KCAL_MOL_DEN == 100000

(* nff/io/ase.py:27-31: the classes calculate does not check *)
UNDIRECTED ==
    {"SchNet", "SchNetDiabat", "HybridGraphConv", "SchNetFeatures",
     "OnlyBondUpdateCP3D"}

(* The keyword parameters of the forward of the graph networks of
   nff.nn.models, which calculate evaluates with requires_stress *)
gnn_forward_params == {"requires_stress"}

(* The parameters a model's forward declares besides batch:
   BondPrior.forward(self, batch) declares none *)
forward_params(model_cls) ==
    IF model_cls = "BondPrior" THEN {} ELSE gnn_forward_params

(* check_directed: assert atoms.directed *)
check_directed(model_cls, ab) ==
    IF ab.directed THEN "none" ELSE "AssertionError"

(* r = (xyz[bond_list[:, 0]] - xyz[bond_list[:, 1]]).pow(2).sum(-1).sqrt()
   for one bond on the x axis *)
bond_r(xyz, bond) == Abs(xyz[bond[1] + 1] - xyz[bond[2] + 1])

(* e = self.k * (r - r_0).pow(2), summed over the bonds of the system *)
bond_energy(xyz, bond, r_0, k) == k * Sq(bond_r(xyz, bond) - r_0)

(* compute_grad(inputs=xyz, output=E): torch.autograd.grad of the bond
   energy with respect to the positions, by the chain rule through
   pow(2), sum, sqrt and k * (r - r_0).pow(2).  The derivative of sqrt at
   0 is infinite and is multiplied by 0, so coincident atoms get nan. *)
compute_grad(xyz, bond, r_0, k) ==
    LET r == bond_r(xyz, bond)
        dE_dr == 2 * k * (r - r_0)
        dr_dx(a) == IF a = bond[1] THEN (xyz[bond[1] + 1] - xyz[bond[2] + 1]) \div r
                    ELSE (xyz[bond[2] + 1] - xyz[bond[1] + 1]) \div r
    IN  [a \in DOMAIN xyz |->
            IF r = 0 THEN [nan |-> TRUE, val |-> 0]
            ELSE [nan |-> FALSE, val |-> dE_dr * dr_dx(a - 1)]]

(* BondPrior.forward: result["energy"] and result["energy_grad"] *)
BondPrior_forward(xyz, bond, r_0, k) ==
    [energy |-> bond_energy(xyz, bond, r_0, k),
     energy_grad |-> compute_grad(xyz, bond, r_0, k)]

(* self.model(batch, requires_stress=requires_stress): torch passes the
   keyword on to forward *)
call_model(model_cls, keywords, xyz, bond, r_0, k) ==
    IF keywords \subseteq forward_params(model_cls)
    THEN [raised |-> "none", prediction |-> BondPrior_forward(xyz, bond, r_0, k)]
    ELSE [raised |-> "TypeError",
          prediction |-> [energy |-> 0, energy_grad |-> <<>>]]

(* Variant: the gradient is reported as the force *)
forces_of_unnegated(energy_grad) ==
    [a \in DOMAIN energy_grad |->
        [nan |-> energy_grad[a].nan,
         num |-> energy_grad[a].val * EV_TO_KCAL_MOL_DEN,
         den |-> EV_TO_KCAL_MOL_NUM]]

(* energy = prediction[self.en_key] * (1 / const.EV_TO_KCAL_MOL), as the
   fraction num / den *)
energy_of(energy) ==
    [num |-> energy * EV_TO_KCAL_MOL_DEN, den |-> EV_TO_KCAL_MOL_NUM]

(* energy_grad = prediction[grad_key] * (1 / const.EV_TO_KCAL_MOL);
   self.results['forces'] = -energy_grad.reshape(-1, 3): each force is the
   fraction num / den *)
forces_of(energy_grad) ==
    [a \in DOMAIN energy_grad |->
        [nan |-> energy_grad[a].nan,
         num |-> (0 - energy_grad[a].val) * EV_TO_KCAL_MOL_DEN,
         den |-> EV_TO_KCAL_MOL_NUM]]

(* AtomsBatch.get_batch: update_nbr_list() when the object holds no
   neighbour list or no offsets *)
get_batch(ab, has_nbr_list) ==
    IF has_nbr_list THEN "none" ELSE update_nbr_list(ab).raised

(* NeuralFF.calculate *)
calculate(c, ab) ==
    LET called == [c EXCEPT !.called = "calculate", !.raised = "none",
                            !.evaluated = FALSE, !.energy = energy_of(0),
                            !.forces = <<>>]
        out == call_model(c.model, {"requires_stress"}, ab.positions,
                          c.bond, c.r_0, c.k)
    IN  IF c.model \notin UNDIRECTED /\ check_directed(c.model, ab) # "none"
        THEN [called EXCEPT !.raised = check_directed(c.model, ab)]
        ELSE IF get_batch(ab, c.has_nbr_list) # "none"
        THEN [called EXCEPT !.raised = get_batch(ab, c.has_nbr_list)]
        ELSE IF out.raised # "none"
        THEN [called EXCEPT !.raised = out.raised]
        ELSE [called EXCEPT !.evaluated = TRUE,
                            !.energy = energy_of(out.prediction.energy),
                            !.forces = forces_of(out.prediction.energy_grad)]

(* The AtomsBatch objects given to the calculator: two atoms, no cell *)
CalcAtoms ==
    {a \in AtomsBatches : Len(a.positions) = 2 /\ a.num_atoms = <<2>>
                            /\ ~a.pbc /\ a.cutoff = MaxCutoff}

(* NeuralFF(model) for an AtomsBatch of two atoms whose props hold the
   bond (bonds, bond_len, num_bonds = [1]) and hold a neighbour list or
   not *)
InitCalc ==
    /\ atoms \in CalcAtoms
    /\ \E model \in {"SchNet", "Painn", "BondPrior"} :
       \E bond \in {<<0, 1>>, <<1, 0>>} : \E r_0 \in 0..MaxBondLen :
       \E k \in 1..MaxForceConstant : \E has_nbr_list \in BOOLEAN :
          calc = [model |-> model, bond |-> bond, r_0 |-> r_0, k |-> k,
                  has_nbr_list |-> has_nbr_list,
                  called |-> "none", raised |-> "none", evaluated |-> FALSE,
                  energy |-> energy_of(0), forces |-> <<>>]
    /\ nbrs = NoNbrs
    /\ props = NoProps
    /\ ang = NoAng
    /\ batch = NoBatch
    /\ tully = NoTully
    /\ md = NoMD

(* calc.calculate(atoms), as atoms.get_forces() does *)
Calculate ==
    /\ calc' = calculate(calc, atoms)
    /\ UNCHANGED <<atoms, nbrs, props, ang, batch, tully, md>>

----------------------------------------------------------------------------
(* Neighbour-list properties *)

(* The minimum-image distance of two atoms d apart along x: the distance
   to the nearest periodic image, or the plain distance without a cell *)
MinImage(d, pbc, cell) ==
    IF pbc
    THEN LET m == Abs(d) % cell IN IF 2 * m > cell THEN cell - m ELSE m
    ELSE Abs(d)

(* The Atoms object whose atoms the l-th list of nbrs indexes *)
ListAtoms(l) ==
    IF nbrs.by = "generate_neighbor_list"
    THEN get_list_atoms(atoms, l - 1)
    ELSE [positions |-> atoms.positions, pbc |-> atoms.pbc, cell |-> atoms.cell]

EdgeMinImage(l, e) ==
    MinImage(ListAtoms(l).positions[e[1] + 1] - ListAtoms(l).positions[e[2] + 1],
             atoms.pbc, atoms.cell)

(* C1: a list built by get_neighbor_list, torch_nbr_list or
   Dataset.generate_neighbor_list (periodic or not) for the nominal cutoff
   c is returned, and every edge of it joins atoms whose minimum-image
   distance is at most c. *)
C1_EdgesWithinCutoff ==
    nbrs.by \in {"get_neighbor_list", "torch_nbr_list", "generate_neighbor_list"}
    => /\ nbrs.raised = "none"
       /\ \A l \in DOMAIN nbrs.nbr_list :
             \A k \in DOMAIN nbrs.nbr_list[l] :
                EdgeMinImage(l, nbrs.nbr_list[l][k]) <= nbrs.cutoff

(* C2: in a directed list built by get_neighbor_list or torch_nbr_list
   with cutoff c, every pair of distinct atoms that is not an edge is
   farther apart than c, so a pair at distance exactly c is an edge.  The
   pairs are taken at non-zero distance: two atoms on the same point are
   left out of the statement. *)
C2_NonEdgesBeyondCutoff ==
    (nbrs.by \in {"get_neighbor_list", "torch_nbr_list"} /\ nbrs.directed)
    => \A l \in DOMAIN nbrs.nbr_list :
          \A i, j \in 0..(Len(ListAtoms(l).positions) - 1) :
             (/\ i # j
              /\ EdgeMinImage(l, <<i, j>>) > 0
              /\ <<i, j>> \notin Range(nbrs.nbr_list[l]))
             => EdgeMinImage(l, <<i, j>>) > nbrs.cutoff

(* The system (0-based) of the AtomsBatch that holds global atom g *)
SystemOf(num_atoms, g) ==
    CHOOSE s \in 0..(Len(num_atoms) - 1) :
        Cum(num_atoms, s) <= g /\ g < Cum(num_atoms, s + 1)

(* The displacement torch_nbr_list tested against the cutoff for the edge
   e (global indices) of an update_nbr_list result *)
TestedDis(e) ==
    LET s == SystemOf(atoms.num_atoms, e[1])
        b == Cum(atoms.num_atoms, s)
    IN  CorrectedDis(get_list_atoms(atoms, s), e[1] - b, e[2] - b)

(* C5: on a periodic cell update_nbr_list returns, and every edge it
   returns carries a Cartesian offset (0 or plus/minus the cell length) with which the
   distance the model reconstructs, |x_i - x_j - offset|, equals the
   minimum-image distance tested against the cutoff; and a pair that is
   within the builder's cutoff only across the cell boundary is an edge
   with a non-zero offset. *)
C5_OffsetsReconstructDistance ==
    (nbrs.by = "update_nbr_list" /\ atoms.pbc)
    => LET list == nbrs.nbr_list[1]
           offs == nbrs.offsets[1]
           rc == atoms.cutoff + atoms.cutoff_skin
       IN  /\ nbrs.raised = "none"
           /\ \A k \in DOMAIN list :
                /\ offs[k] \in {0, atoms.cell, -atoms.cell}
                /\ Abs(ConvolveVec(atoms.positions, list[k], offs[k]))
                     = Abs(TestedDis(list[k]))
                /\ Abs(TestedDis(list[k]))
                     = MinImage(atoms.positions[list[k][1] + 1]
                                  - atoms.positions[list[k][2] + 1],
                                TRUE, atoms.cell)
           /\ \A i, j \in 0..(Len(atoms.positions) - 1) :
                (/\ atoms.directed
                 /\ i # j
                 /\ SystemOf(atoms.num_atoms, i) = SystemOf(atoms.num_atoms, j)
                 /\ Abs(atoms.positions[i + 1] - atoms.positions[j + 1]) >= rc
                 /\ 0 < MinImage(atoms.positions[i + 1] - atoms.positions[j + 1],
                                 TRUE, atoms.cell)
                 /\ MinImage(atoms.positions[i + 1] - atoms.positions[j + 1],
                             TRUE, atoms.cell) < rc)
                => \E k \in DOMAIN list : list[k] = <<i, j>> /\ offs[k] # 0

(* C17: in a directed list built for a non-periodic system by
   get_neighbor_list, torch_nbr_list or Dataset.generate_neighbor_list,
   (i, j) is an edge if and only if (j, i) is an edge, and the two edges
   have the same length. *)
C17_DirectedListIsSymmetric ==
    (/\ nbrs.by \in {"get_neighbor_list", "torch_nbr_list",
                     "generate_neighbor_list"}
     /\ nbrs.raised = "none"
     /\ ~atoms.pbc
     /\ nbrs.directed)
    => \A l \in DOMAIN nbrs.nbr_list :
          LET list == nbrs.nbr_list[l]
              offs == nbrs.offsets[l]
              xyz == ListAtoms(l).positions
          IN  \A k \in DOMAIN list :
                 \E m \in DOMAIN list :
                    /\ list[m] = <<list[k][2], list[k][1]>>
                    /\ Abs(ConvolveVec(xyz, list[m], offs[m]))
                         = Abs(ConvolveVec(xyz, list[k], offs[k]))

(* A directed list of a non-periodic geometry in which some atom pairs are
   edges and some are not *)
C17_Witness ==
    /\ nbrs.by \in {"get_neighbor_list", "torch_nbr_list"}
    /\ nbrs.raised = "none"
    /\ ~atoms.pbc
    /\ nbrs.directed
    /\ Len(atoms.positions) = 3
    /\ Len(nbrs.nbr_list[1]) = 4

(* C18: building a neighbour list with cutoff <= 0 (get_neighbor_list,
   torch_nbr_list, Dataset.generate_neighbor_list) fails with an
   InvalidParameter error and returns no edge list. *)
C18_NonPositiveCutoffIsRejected ==
    (/\ nbrs.by \in {"get_neighbor_list", "torch_nbr_list",
                     "generate_neighbor_list"}
     /\ nbrs.cutoff <= 0)
    => /\ nbrs.raised = "InvalidParameter"
       /\ nbrs.nbr_list = <<>>

----------------------------------------------------------------------------
(* Batch-reindexing properties *)

(* Number of atoms of the systems before system k (1-based) *)
AtomsBefore(num_atoms, k) ==
    IF k = 1 THEN 0
    ELSE LET f[m \in 1..(k - 1)] ==
                 IF m = 1 THEN num_atoms[1] ELSE f[m - 1] + num_atoms[m]
         IN  f[k - 1]

(* Both (all) indices of the tuple e lie in the index range of one system *)
InOneSystem(num_atoms, e) ==
    \E k \in DOMAIN num_atoms :
        \A c \in DOMAIN e :
            /\ AtomsBefore(num_atoms, k) <= e[c]
            /\ e[c] < AtomsBefore(num_atoms, k) + num_atoms[k]

(* C3: in every batched neighbour list that reindexing returns (the one
   of collate_dicts; update_nbr_list returns none, see UpdateNbrList) both
   endpoints of every edge lie in the index range
   [cum[k], cum[k] + num_atoms[k]) of one system k, and no index exceeds
   sum(num_atoms) - 1. *)
C3_EdgesStayInOneSystem ==
    batch.made
    => \A n \in DOMAIN batch.nbr_list :
          /\ InOneSystem(batch.num_atoms, batch.nbr_list[n])
          /\ \A c \in DOMAIN batch.nbr_list[n] :
                batch.nbr_list[n][c] <= AtomsBefore(batch.num_atoms,
                                            Len(batch.num_atoms) + 1) - 1

(* A batch of two systems whose second system has an edge *)
C3_Witness ==
    /\ batch.made
    /\ Len(batch.num_atoms) = 2
    /\ \E n \in DOMAIN batch.nbr_list : batch.nbr_list[n][1] >= batch.num_atoms[1]

(* Number of rows of the per-system lists before system k (1-based) *)
RowsBefore(lists, k) ==
    IF k = 1 THEN 0
    ELSE LET f[m \in 1..(k - 1)] ==
                 IF m = 1 THEN Len(lists[1]) ELSE f[m - 1] + Len(lists[m])
         IN  f[k - 1]

(* `cat` holds, in system order, every row of every local list with the
   atom count of the preceding systems added to each index *)
IsShiftedConcatenation(cat, lists, num_atoms) ==
    /\ Len(cat) = RowsBefore(lists, Len(lists) + 1)
    /\ \A k \in DOMAIN lists : \A r \in DOMAIN lists[k] : \A c \in DOMAIN lists[k][r] :
          cat[RowsBefore(lists, k) + r][c] = lists[k][r][c] + AtomsBefore(num_atoms, k)

(* C4: batching (collate_dicts) maps every local edge or angle tuple of
   system k to the tuple plus the atom count of systems 0..k-1 and
   concatenates the lists in input order, so each batched index designates
   in the concatenated nxyz the atom it designated locally. *)
C4_IndicesShiftedByAtomCounts ==
    batch.made
    => LET local(key) == [k \in DOMAIN batch.dicts |->
                             IF key = "nbr_list" THEN batch.dicts[k].nbr_list
                             ELSE batch.dicts[k].angle_list]
           cat(key) == IF key = "nbr_list" THEN batch.nbr_list
                       ELSE batch.angle_list
       IN  \A key \in {"nbr_list", "angle_list"} \cap batch.keys :
              /\ IsShiftedConcatenation(cat(key), local(key), batch.num_atoms)
              /\ \A k \in DOMAIN batch.dicts :
                    \A r \in DOMAIN local(key)[k] :
                       \A c \in DOMAIN local(key)[k][r] :
                          batch.nxyz[cat(key)[RowsBefore(local(key), k) + r][c] + 1]
                            = batch.dicts[k].nxyz[local(key)[k][r][c] + 1]

(* A batch of two systems whose second system has an angle *)
C4_Witness ==
    /\ batch.made
    /\ Len(batch.dicts) = 2
    /\ "angle_list" \in batch.keys
    /\ Len(batch.dicts[2].angle_list) > 0

----------------------------------------------------------------------------
(* Angle properties *)

IsSymmetric(nbr_list) ==
    \A k \in DOMAIN nbr_list :
        <<nbr_list[k][2], nbr_list[k][1]>> \in Range(nbr_list)

IsUndirected(nbr_list) ==
    \A k \in DOMAIN nbr_list : nbr_list[k][1] < nbr_list[k][2]

(* The paths i - j - k of a list: (i, j) and (j, k) are edges and i # k *)
Paths(nbr_list) ==
    {<<q[1][1], q[1][2], q[2][2]>> :
        q \in {p \in Range(nbr_list) \X Range(nbr_list) :
                  p[1][2] = p[2][1] /\ p[1][1] # p[2][2]}}

AngleCalls == {"get_angle_list", "add_ji_kj"}

(* C6: given a directed neighbour list, get_angle_list returns exactly the
   triples (i, j, k) with (i, j) and (j, k) edges of the list and i # k,
   each of them once. *)
C6_AnglesAreExactlyThePaths ==
    ang.called \in AngleCalls
    => \A s \in DOMAIN ang.given :
          IsSymmetric(ang.given[s])
          => /\ Range(ang.angles[s]) = Paths(ang.given[s])
             /\ Len(ang.angles[s]) = Cardinality(Paths(ang.given[s]))

(* get_angle_list was given a directed list that has angles *)
C6_Witness ==
    /\ ang.called = "get_angle_list"
    /\ \E s \in DOMAIN ang.given :
          /\ IsSymmetric(ang.given[s])
          /\ Len(ang.given[s]) >= 4
          /\ Len(ang.angles[s]) >= 2

(* C9: the list get_angle_list works on and returns is directed: it holds
   every edge it was given and, for every edge (i, j) it holds, (j, i);
   an undirected list is symmetrised by make_directed first. *)
C9_ReturnedListIsDirected ==
    /\ ang.called \in AngleCalls
       => \A s \in DOMAIN ang.given :
             /\ Range(ang.given[s]) \subseteq Range(ang.new_nbrs[s])
             /\ IsSymmetric(ang.new_nbrs[s])
    /\ "angle_list" \in props.keys
       => \A s \in DOMAIN props.nbr_list : IsSymmetric(props.nbr_list[s])

(* get_angle_list was given an undirected list with an edge *)
C9_Witness ==
    /\ ang.called = "get_angle_list"
    /\ \E s \in DOMAIN ang.given :
          Len(ang.given[s]) > 0 /\ IsUndirected(ang.given[s])

(* The angle records with their ji_idx / kj_idx, as the direct calls and
   as Dataset.generate_angle_list left them: <<angles, nbr_list, ji, kj>> *)
AngleRecords ==
    (IF ang.called = "add_ji_kj"
     THEN {<<ang.angles[s], ang.new_nbrs[s], ang.ji_idx[s], ang.kj_idx[s]>> :
              s \in DOMAIN ang.angles}
     ELSE {})
    \cup
    (IF "ji_idx" \in props.keys
     THEN {<<props.angle_list[s], props.nbr_list[s], props.ji_idx[s], props.kj_idx[s]>> :
              s \in DOMAIN props.angle_list}
     ELSE {})

(* C10 as claimed: for every angle record n = (a, b, c),
   nbr_list[ji_idx[n]] = (a, b) and nbr_list[kj_idx[n]] = (b, c). *)
C10_Claimed ==
    \A r \in AngleRecords :
        /\ Len(r[3]) = Len(r[1])
        /\ Len(r[4]) = Len(r[1])
        /\ \A n \in DOMAIN r[1] :
              /\ r[2][r[3][n] + 1] = <<r[1][n][1], r[1][n][2]>>
              /\ r[2][r[4][n] + 1] = <<r[1][n][2], r[1][n][3]>>

(* C10 amended: for every angle record n = (a, b, c) = (i, j, k), ji_idx[n]
   is the position of the edge (j, i) = (b, a) and kj_idx[n] the position
   of the edge (k, j) = (c, b) in the directed list. *)
C10_IdxOfReversedEdges ==
    \A r \in AngleRecords :
        /\ Len(r[3]) = Len(r[1])
        /\ Len(r[4]) = Len(r[1])
        /\ \A n \in DOMAIN r[1] :
              /\ r[2][r[3][n] + 1] = <<r[1][n][2], r[1][n][1]>>
              /\ r[2][r[4][n] + 1] = <<r[1][n][3], r[1][n][2]>>

(* add_ji_kj was called on a system with angles *)
C10_Witness ==
    /\ ang.called = "add_ji_kj"
    /\ \E s \in DOMAIN ang.angles : Len(ang.angles[s]) >= 2

----------------------------------------------------------------------------
(* Surface-hopping properties *)

(* C12: collate_dicts adds to every ji_idx / kj_idx entry of system k the
   number of edges of systems 0..k-1 (not their atom count), so for every
   batched angle the batched edges at ji_idx and kj_idx are the local edges
   the local entries pointed to, with the atom count of systems 0..k-1
   added to both ends. *)
C12_EdgePositionsShiftedByEdgeCounts ==
    (batch.made /\ "ji_idx" \in batch.keys)
    => LET nbr_lists == [k \in DOMAIN batch.dicts |-> batch.dicts[k].nbr_list]
           local(key) == [k \in DOMAIN batch.dicts |->
                             IF key = "ji_idx" THEN batch.dicts[k].ji_idx
                             ELSE batch.dicts[k].kj_idx]
           cat(key) == IF key = "ji_idx" THEN batch.ji_idx ELSE batch.kj_idx
       IN  \A key \in {"ji_idx", "kj_idx"} :
              /\ key \in batch.keys
              /\ Len(cat(key)) = RowsBefore(local(key), Len(batch.dicts) + 1)
              /\ \A k \in DOMAIN batch.dicts : \A r \in DOMAIN local(key)[k] :
                    LET n == RowsBefore(local(key), k) + r
                        edge == nbr_lists[k][local(key)[k][r] + 1]
                    IN  /\ cat(key)[n] = local(key)[k][r] + RowsBefore(nbr_lists, k)
                        /\ cat(key)[n] + 1 \in DOMAIN batch.nbr_list
                        /\ batch.nbr_list[cat(key)[n] + 1]
                             = <<edge[1] + AtomsBefore(batch.num_atoms, k),
                                 edge[2] + AtomsBefore(batch.num_atoms, k)>>

(* A batch of two systems with angles in the second one, whose edge
   positions are shifted by an edge count that differs from the atom count
   of the first system *)
C12_Witness ==
    /\ batch.made
    /\ "ji_idx" \in batch.keys
    /\ Len(batch.dicts) = 2
    /\ Len(batch.dicts[2].ji_idx) > 0
    /\ Len(batch.dicts[1].nbr_list) # batch.dicts[1].num_atoms
    /\ batch.ji_idx[Len(batch.ji_idx)]
         = batch.dicts[2].ji_idx[Len(batch.dicts[2].ji_idx)]
             + Len(batch.dicts[1].nbr_list)

(* C11: after Dataset.generate_angle_list every system of the dataset has
   as many ji_idx entries and as many kj_idx entries as it has angles. *)
C11_OneIdxPairPerAngle ==
    "angle_list" \in props.keys
    => /\ {"ji_idx", "kj_idx"} \subseteq props.keys
       /\ \A s \in DOMAIN props.angle_list :
             /\ Len(props.ji_idx[s]) = Len(props.angle_list[s])
             /\ Len(props.kj_idx[s]) = Len(props.angle_list[s])

(* generate_angle_list ran on a dataset of two systems, one of them with
   several angles *)
C11_Witness ==
    /\ "angle_list" \in props.keys
    /\ Len(props.angle_list) = 2
    /\ \E s \in DOMAIN props.angle_list : Len(props.angle_list[s]) >= 2

(* A hop of sample n from its surface to s2 is frustrated:
   E_s + KE_parallel - E_s2 < 0, with KE_parallel the kinetic energy of the
   velocity component along the coupling vector of the two states *)
IsFrustrated(n, s2) ==
    LET s == tully.old_surfs[n]
        d == tully.nacv[n][s + 1][s2 + 1]
        v_par == IF d = 0 THEN 0 ELSE tully.old_vel[n]
    IN  2 * tully.energy[n][s + 1] + tully.mass[1] * v_par * v_par
          - 2 * tully.energy[n][s2 + 1] < 0

(* C7: when try_hop is called on samples for which a hop to another
   surface is frustrated, it returns, and every sample whose selected hop
   is frustrated keeps its surface index and its velocity. *)
C7_FrustratedHopIsNoOp ==
    (/\ tully.called = "try_hop"
     /\ \E n \in DOMAIN tully.old_surfs :
           \E s2 \in 0..(tully.num_states - 1) :
              s2 # tully.old_surfs[n] /\ IsFrustrated(n, s2))
    => /\ tully.raised = "none"
       /\ \A n \in DOMAIN tully.picked :
             (tully.picked[n] # tully.old_surfs[n]
              /\ IsFrustrated(n, tully.picked[n]))
             => /\ tully.surfs[n] = tully.old_surfs[n]
                /\ tully.vel[n] = tully.old_vel[n]

(* C8: after any sequence of hop decisions every sample's surface index
   is one integer in [0, num_states), and there is one per sample. *)
C8_SurfaceIndexIsValid ==
    /\ Len(tully.surfs) = Len(tully.vel)
    /\ \A n \in DOMAIN tully.surfs :
          tully.surfs[n] \in 0..(tully.num_states - 1)

(* get_new_surf returned surfaces for two samples and the caller kept
   them *)
C8_Witness ==
    /\ tully.called = "get_new_surf"
    /\ tully.raised = "none"
    /\ Len(tully.surfs) >= 2

(* C19: a frustrated hop does not abort the hop step: try_hop returns with
   one surface and one velocity per sample, and a sample whose selected hop
   is frustrated comes back on its old surface while a sample whose
   selected hop is allowed comes back on the selected one, so that the
   caller can tell the two apart. *)
C19_FrustratedHopIsAnOutcome ==
    (/\ tully.called = "try_hop"
     /\ \E n \in DOMAIN tully.old_surfs :
           \E s2 \in 0..(tully.num_states - 1) :
              s2 # tully.old_surfs[n] /\ IsFrustrated(n, s2))
    => /\ tully.raised = "none"
       /\ Len(tully.surfs) = Len(tully.old_surfs)
       /\ Len(tully.vel) = Len(tully.old_vel)
       /\ \A n \in DOMAIN tully.picked :
             tully.picked[n] # tully.old_surfs[n]
             => (IsFrustrated(n, tully.picked[n])
                    <=> tully.surfs[n] = tully.old_surfs[n])

(* A hop of sample n from its surface to s2 can be accepted: the velocity
   has a component along the coupling vector of the two states, so
   KE_parallel > 0, and E_s + KE_parallel - E_s2 >= 0 *)
IsAccepted(n, s2) ==
    /\ tully.nacv[n][tully.old_surfs[n] + 1][s2 + 1] # 0
    /\ tully.old_vel[n] # 0
    /\ ~IsFrustrated(n, s2)

(* C24: for a sample whose hop from s to s2 is accepted, try_hop commits
   surface s2 and returns the velocity whose component perpendicular to the
   coupling direction is unchanged and whose parallel component is scaled
   by sqrt((E_s + KE_parallel - E_s2) / KE_parallel), so that potential
   plus kinetic energy of the sample is the same before and after. *)
C24_AcceptedHopConservesEnergy ==
    (/\ tully.called = "try_hop"
     /\ \E n \in DOMAIN tully.old_surfs :
           \E s2 \in 0..(tully.num_states - 1) :
              s2 # tully.old_surfs[n] /\ IsAccepted(n, s2))
    => /\ tully.raised = "none"
       /\ \A n \in DOMAIN tully.picked :
             (tully.picked[n] # tully.old_surfs[n]
              /\ IsAccepted(n, tully.picked[n]))
             => LET new == tully.vel[n]
                    m == tully.mass[1]
                    de2 == 2 * (tully.energy[n][tully.old_surfs[n] + 1]
                                  - tully.energy[n][tully.picked[n] + 1])
                IN  /\ tully.surfs[n] = tully.picked[n]
                    /\ ~new.nan
                    /\ new.vel - new.v_par = tully.old_vel[n] - new.v_par
                    /\ new.scale_squared[1] * (m * Sq(new.v_par))
                         = (de2 + m * Sq(new.v_par)) * new.scale_squared[2]

(* No hop is selected for sample n in the last try_hop: get_new_surf
   picked the sample's own surface, which is the only surface there is to
   pick when the system has one state *)
NoHopSelected(n) ==
    IF tully.picked # <<>> THEN tully.picked[n] = tully.old_surfs[n]
    ELSE tully.num_states = 1

(* C29: for a sample for which no hop is selected, try_hop returns that
   sample's velocity and surface exactly unchanged, whatever nacv, energy
   and mass are (a zero coupling vector and zero parallel kinetic energy
   included). *)
C29_NoHopSampleComesBackUnchanged ==
    (/\ tully.called = "try_hop"
     /\ \E n \in DOMAIN tully.old_surfs : NoHopSelected(n))
    => /\ tully.raised = "none"
       /\ \A n \in DOMAIN tully.old_surfs :
             NoHopSelected(n)
             => /\ tully.surfs[n] = tully.old_surfs[n]
                /\ tully.vel[n] = tully.old_vel[n]

(* The surface the claimed selection gives: the first state i of the
   shuffled order, other than the current surface, whose own probability
   p[i] exceeds the draw; the current surface if there is none *)
FirstExceeding(order, surf, p, rnd) ==
    LET hits == {m \in DOMAIN order :
                    order[m] # surf /\ exceeds(p[order[m] + 1], rnd)}
    IN  IF hits = {} THEN surf
        ELSE order[CHOOSE m \in hits : \A k \in hits : m <= k]

(* C20: get_new_surf returns, for each sample, the first candidate of the
   shuffled order whose own hopping probability for that sample exceeds
   the draw, and the current surface if no candidate does; a candidate
   with probability <= 0 is never selected. *)
C20_FirstExceedingCandidateIsSelected ==
    tully.called = "get_new_surf"
    => /\ tully.raised = "none"
       /\ Len(tully.surfs) = Len(tully.old_surfs)
       /\ \A n \in DOMAIN tully.surfs :
             /\ tully.surfs[n]
                  = FirstExceeding(tully.shuffles[n], tully.old_surfs[n],
                                   tully.p_hop[n], tully.rnds[n])
             /\ tully.surfs[n] # tully.old_surfs[n]
                => tully.p_hop[n][tully.surfs[n] + 1][1] > 0

(* Re(a_ij) for a_ij = conj(c_i) * c_j of sample n (i, j 0-based) *)
ReA(n, i, j) ==
    tully.c[n][i + 1][1] * tully.c[n][j + 1][1]
      + tully.c[n][i + 1][2] * tully.c[n][j + 1][2]

(* b_ij = -2 * Re(conj(a_ij) * T_ij) of sample n, T being real *)
ClaimedB(n, i, j) == -2 * ReA(n, i, j) * tully.T[n][i + 1][j + 1]

(* C21: for every sample n, get_p_hop returns for each state i
   p_i = dt * b[active, i] / a[active, active] with a_ij = conj(c_i) * c_j,
   b_ij = -2 * Re(conj(a_ij) * T_ij) and active the sample's current
   surface: row `active` of b. *)
C21_PHopIsActiveRowOverPopulation ==
    tully.called = "get_p_hop"
    => /\ tully.raised = "none"
       /\ Len(tully.p_hop) = Len(tully.surfs)
       /\ \A n \in DOMAIN tully.p_hop :
             \A i \in 0..(tully.num_states - 1) :
                LET active == tully.surfs[n]
                IN  tully.p_hop[n][i + 1]
                      = <<tully.dt * ClaimedB(n, active, i),
                          ReA(n, active, active)>>

----------------------------------------------------------------------------
(* Electronic-propagation properties *)

(* C16: runge_c applied to coefficients with sum(|c_i|^2) = 1 returns
   coefficients whose sum(|c_i|^2) is within 1e-4 of 1. *)
C16_RungeKeepsNorm ==
    tully.called = "runge_c"
    => LET n == norm_c(tully.c)
       IN  Abs(n[1] - n[2]) <= n[2] \div 10000

(* The 4th-order Runge-Kutta step of size elec_dt = <<num, den>> of
   dc/dt = get_dc_dt(c): c + elec_dt * (k1 + 2 * k2 + 2 * k3 + k4) / 6 *)
RungeKuttaStep(c, vel, nacv, energy, elec_dt) ==
    LET deriv(x) == get_dc_dt(x, vel, nacv, energy)
        k1 == deriv(c)
        k2 == deriv(c_plus(c, k1, elec_dt[1], 2 * elec_dt[2]))
        k3 == deriv(c_plus(c, k2, elec_dt[1], 2 * elec_dt[2]))
        k4 == deriv(c_plus(c, k3, elec_dt[1], elec_dt[2]))
        slope == SubSeq([i \in DOMAIN c |->
                     CSum(<<k1[i], CScale(k2[i], 2, 1), CScale(k3[i], 2, 1),
                            k4[i]>>)], 1, Len(c))
    IN  c_plus(c, slope, elec_dt[1], 6 * elec_dt[2])

(* C22: one runge_c call is one 4th-order Runge-Kutta step of size elec_dt,
   new_c = c + elec_dt * (k1 + 2 * k2 + 2 * k3 + k4) / 6 with the four stage
   derivatives of dc/dt; a step with elec_dt = 0 returns c unchanged. *)
C22_RungeIsOneStepOfElecDt ==
    tully.called = "runge_c"
    => /\ tully.c = RungeKuttaStep(tully.old_c, tully.vel, tully.nacv,
                                   tully.energy, tully.elec_dt)
       /\ tully.elec_dt[1] = 0 => tully.c = tully.old_c

----------------------------------------------------------------------------
(* Verlet properties *)

(* The quotient q = <<numerator, denominator>> equals num / den *)
QuotientIs(q, num, den) == q[1] * den = num * q[2]

(* C23: in verlet_step_1 and verlet_step_2 the acceleration of atom a of
   sample s is forces[s, surf[s], a] / mass[a], the force of the sample's
   active surface over that atom's mass; step 1 returns
   x + v * dt + 0.5 * acc * dt^2 and v + 0.5 * acc * dt, step 2 returns
   v + 0.5 * acc * dt, one row per sample and one entry per atom. *)
C23_VerletUsesActiveForceOverAtomMass ==
    tully.called \in {"verlet_step_1", "verlet_step_2"}
    => /\ tully.raised = "none"
       /\ Len(tully.new_vel) = Len(tully.vel)
       /\ tully.called = "verlet_step_1" => Len(tully.new_xyz) = Len(tully.xyz)
       /\ \A s \in DOMAIN tully.vel : \A a \in DOMAIN tully.mass :
             LET f == tully.forces[s][tully.surfs[s] + 1][a]
                 m == tully.mass[a]
                 v == tully.vel[s][a]
                 x == tully.xyz[s][a]
                 dt == tully.nuc_dt
             IN  /\ QuotientIs(tully.new_vel[s][a], 2 * m * v + dt * f, 2 * m)
                 /\ tully.called = "verlet_step_1"
                    => QuotientIs(tully.new_xyz[s][a],
                                  2 * m * (x + v * dt) + f * dt * dt, 2 * m)

----------------------------------------------------------------------------
(* Per-sample independence *)

(* C25: each output of a Tully primitive for sample s depends only on the
   inputs of sample s and the random draws made for s: of two calls on
   batches that agree in sample s and differ in the other samples, both
   raise the same exception or both return and return the same outputs
   for sample s. *)
C25_SampleOutputsDependOnOwnInputs ==
    tully.called # "none"
    => /\ tully.out_a.raised = tully.out_b.raised
       /\ tully.out_a.raised = "none"
          => /\ DOMAIN tully.out_a.value = DOMAIN tully.out_b.value
             /\ tully.same \in DOMAIN tully.out_a.value
                => tully.out_a.value[tully.same] = tully.out_b.value[tully.same]

(* verlet_step_1 returned for two batches of two samples that differ in the
   surface, the force and the velocity of the other sample, and sample
   `same` is accelerated *)
C25_Witness ==
    /\ tully.called = "verlet_step_1"
    /\ tully.out_a.raised = "none"
    /\ Len(tully.surfs_a) = 2
    /\ tully.surfs_a # tully.surfs_b
    /\ tully.args_a[1] # tully.args_b[1]
    /\ tully.args_a[2] # tully.args_b[2]
    /\ tully.args_a[1][tully.same] = 1
    /\ tully.out_a.value # tully.out_b.value
    /\ tully.out_a.value[tully.same] = tully.out_b.value[tully.same]

----------------------------------------------------------------------------
(* Padding properties *)

(* The row (0-based) that real atom x of the unpadded batch occupies in the
   padded nxyz *)
PaddedRowOf(x) ==
    CHOOSE r \in 0..(Len(batch.nxyz) - 1) :
        batch.nxyz[r + 1] = batch.real_nxyz[x + 1]

(* C27: when a batch of systems is NaN-padded to a common length, the
   adjusted neighbour list maps every original edge (i, j) to
   (pos(i), pos(j)), pos(x) being the row of real atom x in the padded
   coordinate array; no adjusted edge ends on a padding row and the number
   of edges is unchanged. *)
C27_PaddedEdgesFollowTheirAtoms ==
    (batch.made /\ "real_nbrs" \in batch.keys)
    => /\ Len(batch.nbr_list) = Len(batch.real_nbrs)
       /\ \A k \in DOMAIN batch.real_nbrs :
             /\ batch.nbr_list[k] = <<PaddedRowOf(batch.real_nbrs[k][1]),
                                      PaddedRowOf(batch.real_nbrs[k][2])>>
             /\ \A c \in 1..2 :
                   /\ batch.nbr_list[k][c] \in 0..(Len(batch.nxyz) - 1)
                   /\ batch.nxyz[batch.nbr_list[k][c] + 1] # NanRow

(* A batch was padded in which a shorter system precedes a system with
   edges, so that padding rows lie below the atoms of an edge *)
C27_Witness ==
    /\ batch.made
    /\ "real_nbrs" \in batch.keys
    /\ Len(batch.real_num_atoms) = 2
    /\ batch.real_num_atoms[1] < batch.real_num_atoms[2]
    /\ batch.real_nbrs # <<>>
    /\ batch.nbr_list # batch.real_nbrs
    /\ \E r \in DOMAIN batch.nxyz : batch.nxyz[r] = NanRow

----------------------------------------------------------------------------
(* Loader properties *)

(* C30: collate_dicts never writes into the index tensors it is given, so
   the nbr_list, angle_list, ji_idx and kj_idx stored in a Dataset are, after
   any number of collated batches, the ones stored before the first batch,
   and collating the same items of the dataset again yields the same
   batch. *)
C30_CollateLeavesTheDatasetAlone ==
    batch.made
    => /\ props.nbr_list = batch.stored.nbr_list
       /\ props.angle_list = batch.stored.angle_list
       /\ props.ji_idx = batch.stored.ji_idx
       /\ props.kj_idx = batch.stored.kj_idx
       /\ LET again == collate_dicts([m \in DOMAIN batch.idx |->
                                         GetItem(props, batch.idx[m])])
          IN  /\ again.nxyz = batch.nxyz
              /\ again.num_atoms = batch.num_atoms
              /\ again.nbr_list = batch.nbr_list
              /\ again.angle_list = batch.angle_list
              /\ again.ji_idx = batch.ji_idx
              /\ again.kj_idx = batch.kj_idx

(* A batch of two items was collated in which the neighbours, angles and
   edge positions of the second item were shifted *)
C30_Witness ==
    /\ batch.made
    /\ Len(batch.idx) = 2
    /\ "ji_idx" \in batch.keys
    /\ batch.dicts[2].nbr_list # props.nbr_list[batch.idx[2]]
    /\ batch.dicts[2].angle_list # props.angle_list[batch.idx[2]]
    /\ batch.dicts[2].ji_idx # props.ji_idx[batch.idx[2]]
    /\ batch.dicts[2].kj_idx # props.kj_idx[batch.idx[2]]

----------------------------------------------------------------------------
(* Conformer-trimming properties *)

(* The rows of the species' untrimmed nxyz that belong to kept conformers *)
KeptRows(i) ==
    {x \in 0..(Len(props.old.nxyz[i]) - 1) :
        \E m \in DOMAIN props.conf_idx[i] :
           props.old.nxyz[i][x + 1][1] = props.conf_idx[i][m]}

(* The row (0-based) of the trimmed nxyz that holds the atom of row x of
   the untrimmed one *)
TrimmedRowOf(i, x) ==
    CHOOSE r \in 0..(Len(props.nxyz[i]) - 1) :
        props.nxyz[i][r + 1] = props.old.nxyz[i][x + 1]

(* The edges the trimmed list is to hold: one for each original edge whose
   two atoms lie in the same kept conformer, renumbered *)
KeptEdges(i, old_nbrs) ==
    {<<TrimmedRowOf(i, e[1]), TrimmedRowOf(i, e[2])>> :
        e \in {f \in Range(old_nbrs) :
                  /\ f[1] \in KeptRows(i) /\ f[2] \in KeptRows(i)
                  /\ props.old.nxyz[i][f[1] + 1][1]
                       = props.old.nxyz[i][f[2] + 1][1]}}

(* `new` holds every edge of `kept` exactly once and nothing else *)
HoldsExactlyOnce(new, kept) ==
    /\ Range(new) = kept
    /\ Len(new) = Cardinality(kept)

(* C28: after trim_confs kept the conformers conf_idx of a species, the
   stored nbr_list and bonded_nbr_list hold exactly one edge for each
   original edge whose two atoms lie in the same kept conformer, and no
   other, renumbered to the rows of the trimmed nxyz; every index is in
   [0, len(trimmed nxyz)) and len(bonded_nbr_list) = len(bond_features). *)
C28_TrimmedListsHoldKeptEdgesOnce ==
    props.called = "trim_confs"
    => \A i \in DOMAIN props.nxyz :
          props.conf_idx[i] # <<>>
          => /\ HoldsExactlyOnce(props.nbr_list[i],
                                 KeptEdges(i, props.old.nbr_list[i]))
             /\ HoldsExactlyOnce(props.bonded_nbr_list[i],
                                 KeptEdges(i, props.old.bonded_nbr_list[i]))
             /\ \A e \in Range(props.nbr_list[i])
                         \cup Range(props.bonded_nbr_list[i]) :
                   /\ e[1] \in 0..(Len(props.nxyz[i]) - 1)
                   /\ e[2] \in 0..(Len(props.nxyz[i]) - 1)
             /\ Len(props.bonded_nbr_list[i]) = Len(props.bond_features[i])

----------------------------------------------------------------------------
(* MD-driver properties *)

(* C13: a call run(steps) of NoseHoover / BatchNoseHoover that returns has
   integrated exactly `steps` time steps, for every steps >= 1 and every
   nbr_update_period >= 1. *)
C13_RunIntegratesStepsSteps ==
    (md.called = "run" /\ md.raised = "none")
    => md.nsteps - md.nsteps_before = md.steps

(* C26: during run(steps) the neighbour list is rebuilt before the first
   integration step and again after each block of steps: the call returns,
   update_nbr_list has returned once more often than there are blocks, and
   no block between two consecutive rebuilds has more than
   nbr_update_period steps. *)
C26_RebuildEveryPeriodSteps ==
    (md.called = "run" /\ md.steps >= 1)
    => /\ md.raised = "none"
       /\ md.nbr_updates = epochs_of(md.steps, md.nbr_update_period) + 1
       /\ md.max_block <= md.nbr_update_period

----------------------------------------------------------------------------
(* Calculator properties *)

(* C14: NeuralFF.calculate evaluates the model only on an AtomsBatch whose
   neighbour-list convention is the one the model assumes: a model that
   needs a directed list is never run on an undirected AtomsBatch, and a
   model that needs an undirected list is never run on a directed one. *)
C14_ModelRunsOnItsConventionOnly ==
    (calc.called = "calculate" /\ calc.evaluated)
    => (calc.model \in UNDIRECTED <=> ~atoms.directed)

(* C15: for the harmonic energy k * (r - r_0)^2 of two distinct atoms, the
   force calculate reports on each atom is minus the energy gradient (in
   eV, i.e. divided by EV_TO_KCAL_MOL): its magnitude is 2 * k * |r - r_0|
   and it points towards the other atom when r > r_0 and away from it when
   r < r_0. *)
C15_HarmonicForceRestores ==
    (calc.called = "calculate" /\ calc.evaluated
        /\ atoms.positions[1] # atoms.positions[2])
    => LET r == Abs(atoms.positions[1] - atoms.positions[2])
           towards(a) == IF atoms.positions[3 - a] > atoms.positions[a]
                         THEN 1 ELSE -1
       IN  /\ calc.energy = [num |-> calc.k * Sq(r - calc.r_0) * EV_TO_KCAL_MOL_DEN,
                              den |-> EV_TO_KCAL_MOL_NUM]
           /\ \A a \in 1..2 :
                 /\ ~calc.forces[a].nan
                 /\ calc.forces[a].den = EV_TO_KCAL_MOL_NUM
                 /\ calc.forces[a].num
                      = 2 * calc.k * (r - calc.r_0) * towards(a)
                          * EV_TO_KCAL_MOL_DEN

(* calculate reported the non-zero forces of a stretched bond whose
   second atom is listed first *)
C15_Witness ==
    /\ calc.called = "calculate"
    /\ calc.evaluated
    /\ Abs(atoms.positions[1] - atoms.positions[2]) > calc.r_0
    /\ calc.r_0 > 0
    /\ calc.bond = <<1, 0>>
    /\ calc.forces[1].num # 0

----------------------------------------------------------------------------
(* Specifications *)

(* The neighbour-list builders on one geometry container *)
NextNbr ==
    \/ GetNeighborList
    \/ TorchNbrList
    \/ UpdateNbrList
    \/ GenerateNeighborList

SpecNbr == InitAtoms /\ [][NextNbr]_vars

(* The graph dataset: angles and batching *)
NextGraph ==
    \/ GetAngleList
    \/ AddJiKj
    \/ GenerateAngleList
    \/ Collate

SpecGraph == InitDataset /\ [][NextGraph]_vars

(* The surface-hopping primitives on one set of samples *)
NextTully ==
    \/ GetNewSurf
    \/ Rescale
    \/ TryHop

SpecTully == InitTully /\ [][NextTully]_vars

(* The MD drivers *)
NextMD ==
    \/ Run

SpecMD == InitMD /\ [][NextMD]_vars

(* The calculator *)
NextCalc ==
    \/ Calculate

SpecCalc == InitCalc /\ [][NextCalc]_vars

(* The electronic propagation *)
NextElec ==
    \/ RungeC

SpecElec == InitElec /\ [][NextElec]_vars

(* The neighbour-list builders on a molecule *)
NextMolecule ==
    \/ GetNeighborList
    \/ TorchNbrList
    \/ GenerateNeighborList

SpecMolecule == InitMolecule /\ [][NextMolecule]_vars

(* The surface selection on recorded inputs *)
NextNewSurf ==
    \/ NewSurf

SpecNewSurf == InitNewSurf /\ [][NextNewSurf]_vars

(* The hopping probabilities on recorded inputs *)
NextPHop ==
    \/ GetPHop

SpecPHop == InitPHop /\ [][NextPHop]_vars

(* The Verlet steps on recorded inputs *)
NextVerlet ==
    \/ VerletStep1
    \/ VerletStep2

SpecVerlet == InitVerlet /\ [][NextVerlet]_vars

(* The primitives on two batches that agree in one sample *)
NextTwin ==
    \/ TwinVerletStep1
    \/ TwinGetNewSurf
    \/ TwinRescale

SpecTwin == InitTwin /\ [][NextTwin]_vars

(* Collation and padding of a dataset with neighbour lists *)
NextPad ==
    \/ Collate
    \/ Pad

SpecPad == InitDataset /\ [][NextPad]_vars

(* Batches drawn from a dataset by a loader *)
NextLoader ==
    \/ LoadBatch

SpecLoader == InitLoader /\ [][NextLoader]_vars

(* Conformer trimming of a dataset *)
NextTrim ==
    \/ TrimConfs

SpecTrim == InitTrim /\ [][NextTrim]_vars

====
